---- MODULE Spec2Model ----
(***************************************************************************)
(* A model of minty's lint core (src/src/extension.ts): the tool-calling   *)
(* conversation loop, the response parser and the diagnostic mapper.       *)
(*                                                                         *)
(* JavaScript strings are sequences of one-character strings, so that      *)
(* indexOf, trim, the code-fence regular expression and JSON text are      *)
(* computed character by character.  JavaScript values that come out of    *)
(* JSON.parse are tagged records (JNum, JStr, JArr, JObj, JNull, JBool);   *)
(* a missing property reads as Undefined.                                  *)
(***************************************************************************)
EXTENDS Integers, Sequences, FiniteSets, TLC

VARIABLES
    openai,               \* the module-level client handle: TRUE when initialised
    diagnosticCollection, \* the linted document's diagnostics
    document,             \* the live document: a sequence of lines
    pc,                   \* where the lint invocation is suspended
    messages,             \* the invocation's transcript
    modelCalls,           \* chat.completions.create calls the invocation issued
    modelFailures,        \* those of them that failed
    toolResolutions,      \* tool-call callbacks the invocation ran
    fileReads,            \* reads the invocation handed to the file system
    readResults,          \* what the file system answered, per request
    setCalls,             \* diagnosticCollection.set calls the invocation made
    errorMessages,        \* showErrorMessage notices the invocation showed
    outcome,              \* how the invocation's try block ended
    fnIn,                 \* the argument of a function checked on its own
    fnOut,                \* and its result
    other                 \* a second invocation in flight for the same document

vars == <<openai, diagnosticCollection, document, pc, messages, modelCalls, modelFailures,
          toolResolutions, fileReads, readResults, setCalls, errorMessages, outcome,
          fnIn, fnOut, other>>

(***************************************************************************)
(* Strings                                                                 *)
(***************************************************************************)

\* the grave accent (U+0060), a character a TLA+ string literal cannot hold
Grave == "GRAVE"
\* control characters without a literal of their own are named by their code
Backspace == "U+0008"
VerticalTab == "U+000B"

\* the code units 0..127, in the order of their codes
Ascii ==
   << "U+0000", "U+0001", "U+0002", "U+0003", "U+0004", "U+0005", "U+0006", "U+0007", Backspace, "\t", "\n", VerticalTab, "\f", "\r", "U+000E", "U+000F",
      "U+0010", "U+0011", "U+0012", "U+0013", "U+0014", "U+0015", "U+0016", "U+0017", "U+0018", "U+0019", "U+001A", "U+001B", "U+001C", "U+001D", "U+001E", "U+001F",
      " ", "!", "\"", "#", "$", "%", "&", "'", "(", ")", "*", "+", ",", "-", ".", "/",
      "0", "1", "2", "3", "4", "5", "6", "7", "8", "9", ":", ";", "<", "=", ">", "?",
      "@", "A", "B", "C", "D", "E", "F", "G", "H", "I", "J", "K", "L", "M", "N", "O",
      "P", "Q", "R", "S", "T", "U", "V", "W", "X", "Y", "Z", "[", "\\", "]", "^", "_",
      Grave, "a", "b", "c", "d", "e", "f", "g", "h", "i", "j", "k", "l", "m", "n", "o",
      "p", "q", "r", "s", "t", "u", "v", "w", "x", "y", "z", "{", "|", "}", "~", "U+007F" >>
\* the code units U+0000..U+001F
ControlChars == {Ascii[i] : i \in 1..32}

\* the code unit with a given code; one above 127 is named by its decimal code
CharOfCode(code) == IF code < 128 THEN Ascii[code + 1] ELSE ToString(code)

\* p occurs in s at the 1-based position i
IsAt(s, p, i) ==
    /\ i >= 1
    /\ i + Len(p) - 1 <= Len(s)
    /\ SubSeq(s, i, i + Len(p) - 1) = p

\* indexOf searching from the end of the string: the last occurrence
lastIndexOf(s, p) ==
    IF \E i \in 1..(Len(s) + 1) : IsAt(s, p, i)
    THEN (CHOOSE i \in 1..(Len(s) + 1) :
              IsAt(s, p, i) /\ \A j \in (i + 1)..(Len(s) + 1) : ~IsAt(s, p, j)) - 1
    ELSE -1

\* String.prototype.indexOf: 0-based index of the first occurrence, or -1
indexOf(s, p) ==
    IF \E i \in 1..(Len(s) + 1) : IsAt(s, p, i)
    THEN (CHOOSE i \in 1..(Len(s) + 1) :
              IsAt(s, p, i) /\ \A j \in 1..(i - 1) : ~IsAt(s, p, j)) - 1
    ELSE -1

\* the white space and line terminators String.prototype.trim strips: TAB, LF,
\* VT, FF, CR, the space separators (U+0020, U+00A0, U+1680, U+2000..U+200A,
\* U+202F, U+205F, U+3000), U+2028, U+2029 and U+FEFF
WhiteSpace ==
    {"\t", "\n", VerticalTab, "\f", "\r", " "}
        \cup {CharOfCode(code) :
                 code \in {160, 5760, 8232, 8233, 8239, 8287, 12288, 65279} \cup 8192..8202}

\* String.prototype.trim
trim(s) ==
    IF \A i \in 1..Len(s) : s[i] \in WhiteSpace
    THEN <<>>
    ELSE LET first == CHOOSE i \in 1..Len(s) :
                          s[i] \notin WhiteSpace /\ \A j \in 1..(i - 1) : s[j] \in WhiteSpace
             last  == CHOOSE i \in 1..Len(s) :
                          s[i] \notin WhiteSpace /\ \A j \in (i + 1)..Len(s) : s[j] \in WhiteSpace
         IN  SubSeq(s, first, last)

RECURSIVE Join(_, _)
\* Array.prototype.join
Join(parts, sep) ==
    IF Len(parts) = 0 THEN <<>>
    ELSE IF Len(parts) = 1 THEN parts[1]
    ELSE parts[1] \o sep \o Join(Tail(parts), sep)

RECURSIVE split(_, _)
\* String.prototype.split with a one-character separator
split(s, sep) ==
    IF \A i \in 1..Len(s) : s[i] # sep THEN <<s>>
    ELSE LET i == CHOOSE i \in 1..Len(s) : s[i] = sep /\ \A j \in 1..(i - 1) : s[j] # sep
         IN  <<SubSeq(s, 1, i - 1)>> \o split(SubSeq(s, i + 1, Len(s)), sep)

\* the case tables of Unicode: lower, the code points with a lower case of one
\* code point, <<first, last, step, distance to the lower case>>; cased, the cased
\* letters that are not case-ignorable, <<first, last>>; ignorable, the
\* case-ignorable code points, <<first, last>>
CaseTables ==
  [lower |->
    <<<<65, 90, 1, 32>>, <<192, 214, 1, 32>>, <<216, 222, 1, 32>>, <<256, 302, 2, 1>>, <<306, 310, 2, 1>>,
       <<313, 327, 2, 1>>, <<330, 374, 2, 1>>, <<376, 376, 1, -121>>, <<377, 381, 2, 1>>, <<385, 385, 1, 210>>,
       <<386, 388, 2, 1>>, <<390, 390, 1, 206>>, <<391, 391, 1, 1>>, <<393, 394, 1, 205>>, <<395, 395, 1, 1>>,
       <<398, 398, 1, 79>>, <<399, 399, 1, 202>>, <<400, 400, 1, 203>>, <<401, 401, 1, 1>>, <<403, 403, 1, 205>>,
       <<404, 404, 1, 207>>, <<406, 406, 1, 211>>, <<407, 407, 1, 209>>, <<408, 408, 1, 1>>, <<412, 412, 1, 211>>,
       <<413, 413, 1, 213>>, <<415, 415, 1, 214>>, <<416, 420, 2, 1>>, <<422, 422, 1, 218>>, <<423, 423, 1, 1>>,
       <<425, 425, 1, 218>>, <<428, 428, 1, 1>>, <<430, 430, 1, 218>>, <<431, 431, 1, 1>>, <<433, 434, 1, 217>>,
       <<435, 437, 2, 1>>, <<439, 439, 1, 219>>, <<440, 440, 1, 1>>, <<444, 444, 1, 1>>, <<452, 452, 1, 2>>,
       <<453, 453, 1, 1>>, <<455, 455, 1, 2>>, <<456, 456, 1, 1>>, <<458, 458, 1, 2>>, <<459, 475, 2, 1>>,
       <<478, 494, 2, 1>>, <<497, 497, 1, 2>>, <<498, 500, 2, 1>>, <<502, 502, 1, -97>>, <<503, 503, 1, -56>>,
       <<504, 542, 2, 1>>, <<544, 544, 1, -130>>, <<546, 562, 2, 1>>, <<570, 570, 1, 10795>>, <<571, 571, 1, 1>>,
       <<573, 573, 1, -163>>, <<574, 574, 1, 10792>>, <<577, 577, 1, 1>>, <<579, 579, 1, -195>>, <<580, 580, 1, 69>>,
       <<581, 581, 1, 71>>, <<582, 590, 2, 1>>, <<880, 882, 2, 1>>, <<886, 886, 1, 1>>, <<895, 895, 1, 116>>,
       <<902, 902, 1, 38>>, <<904, 906, 1, 37>>, <<908, 908, 1, 64>>, <<910, 911, 1, 63>>, <<913, 929, 1, 32>>,
       <<931, 939, 1, 32>>, <<975, 975, 1, 8>>, <<984, 1006, 2, 1>>, <<1012, 1012, 1, -60>>, <<1015, 1015, 1, 1>>,
       <<1017, 1017, 1, -7>>, <<1018, 1018, 1, 1>>, <<1021, 1023, 1, -130>>, <<1024, 1039, 1, 80>>, <<1040, 1071, 1, 32>>,
       <<1120, 1152, 2, 1>>, <<1162, 1214, 2, 1>>, <<1216, 1216, 1, 15>>, <<1217, 1229, 2, 1>>, <<1232, 1326, 2, 1>>,
       <<1329, 1366, 1, 48>>, <<4256, 4293, 1, 7264>>, <<4295, 4295, 1, 7264>>, <<4301, 4301, 1, 7264>>, <<5024, 5103, 1, 38864>>,
       <<5104, 5109, 1, 8>>, <<7305, 7305, 1, 1>>, <<7312, 7354, 1, -3008>>, <<7357, 7359, 1, -3008>>, <<7680, 7828, 2, 1>>,
       <<7838, 7838, 1, -7615>>, <<7840, 7934, 2, 1>>, <<7944, 7951, 1, -8>>, <<7960, 7965, 1, -8>>, <<7976, 7983, 1, -8>>,
       <<7992, 7999, 1, -8>>, <<8008, 8013, 1, -8>>, <<8025, 8031, 2, -8>>, <<8040, 8047, 1, -8>>, <<8072, 8079, 1, -8>>,
       <<8088, 8095, 1, -8>>, <<8104, 8111, 1, -8>>, <<8120, 8121, 1, -8>>, <<8122, 8123, 1, -74>>, <<8124, 8124, 1, -9>>,
       <<8136, 8139, 1, -86>>, <<8140, 8140, 1, -9>>, <<8152, 8153, 1, -8>>, <<8154, 8155, 1, -100>>, <<8168, 8169, 1, -8>>,
       <<8170, 8171, 1, -112>>, <<8172, 8172, 1, -7>>, <<8184, 8185, 1, -128>>, <<8186, 8187, 1, -126>>, <<8188, 8188, 1, -9>>,
       <<8486, 8486, 1, -7517>>, <<8490, 8490, 1, -8383>>, <<8491, 8491, 1, -8262>>, <<8498, 8498, 1, 28>>, <<8544, 8559, 1, 16>>,
       <<8579, 8579, 1, 1>>, <<9398, 9423, 1, 26>>, <<11264, 11311, 1, 48>>, <<11360, 11360, 1, 1>>, <<11362, 11362, 1, -10743>>,
       <<11363, 11363, 1, -3814>>, <<11364, 11364, 1, -10727>>, <<11367, 11371, 2, 1>>, <<11373, 11373, 1, -10780>>, <<11374, 11374, 1, -10749>>,
       <<11375, 11375, 1, -10783>>, <<11376, 11376, 1, -10782>>, <<11378, 11378, 1, 1>>, <<11381, 11381, 1, 1>>, <<11390, 11391, 1, -10815>>,
       <<11392, 11490, 2, 1>>, <<11499, 11501, 2, 1>>, <<11506, 11506, 1, 1>>, <<42560, 42604, 2, 1>>, <<42624, 42650, 2, 1>>,
       <<42786, 42798, 2, 1>>, <<42802, 42862, 2, 1>>, <<42873, 42875, 2, 1>>, <<42877, 42877, 1, -35332>>, <<42878, 42886, 2, 1>>,
       <<42891, 42891, 1, 1>>, <<42893, 42893, 1, -42280>>, <<42896, 42898, 2, 1>>, <<42902, 42920, 2, 1>>, <<42922, 42922, 1, -42308>>,
       <<42923, 42923, 1, -42319>>, <<42924, 42924, 1, -42315>>, <<42925, 42925, 1, -42305>>, <<42926, 42926, 1, -42308>>, <<42928, 42928, 1, -42258>>,
       <<42929, 42929, 1, -42282>>, <<42930, 42930, 1, -42261>>, <<42931, 42931, 1, 928>>, <<42932, 42946, 2, 1>>, <<42948, 42948, 1, -48>>,
       <<42949, 42949, 1, -42307>>, <<42950, 42950, 1, -35384>>, <<42951, 42953, 2, 1>>, <<42955, 42955, 1, -42343>>, <<42956, 42970, 2, 1>>,
       <<42972, 42972, 1, -42561>>, <<42997, 42997, 1, 1>>, <<65313, 65338, 1, 32>>, <<66560, 66599, 1, 40>>, <<66736, 66771, 1, 40>>,
       <<66928, 66938, 1, 39>>, <<66940, 66954, 1, 39>>, <<66956, 66962, 1, 39>>, <<66964, 66965, 1, 39>>, <<68736, 68786, 1, 64>>,
       <<68944, 68965, 1, 32>>, <<71840, 71871, 1, 32>>, <<93760, 93791, 1, 32>>, <<93856, 93880, 1, 27>>, <<125184, 125217, 1, 34>> >>,
   cased |->
    <<<<65, 90>>, <<97, 122>>, <<170, 170>>, <<181, 181>>, <<186, 186>>, <<192, 214>>, <<216, 246>>, <<248, 442>>,
       <<444, 447>>, <<452, 659>>, <<662, 687>>, <<880, 883>>, <<886, 887>>, <<891, 893>>, <<895, 895>>, <<902, 902>>,
       <<904, 906>>, <<908, 908>>, <<910, 929>>, <<931, 1013>>, <<1015, 1153>>, <<1162, 1327>>, <<1329, 1366>>, <<1376, 1416>>,
       <<4256, 4293>>, <<4295, 4295>>, <<4301, 4301>>, <<4304, 4346>>, <<4349, 4351>>, <<5024, 5109>>, <<5112, 5117>>, <<7296, 7306>>,
       <<7312, 7354>>, <<7357, 7359>>, <<7424, 7467>>, <<7531, 7543>>, <<7545, 7578>>, <<7680, 7957>>, <<7960, 7965>>, <<7968, 8005>>,
       <<8008, 8013>>, <<8016, 8023>>, <<8025, 8025>>, <<8027, 8027>>, <<8029, 8029>>, <<8031, 8061>>, <<8064, 8116>>, <<8118, 8124>>,
       <<8126, 8126>>, <<8130, 8132>>, <<8134, 8140>>, <<8144, 8147>>, <<8150, 8155>>, <<8160, 8172>>, <<8178, 8180>>, <<8182, 8188>>,
       <<8450, 8450>>, <<8455, 8455>>, <<8458, 8467>>, <<8469, 8469>>, <<8473, 8477>>, <<8484, 8484>>, <<8486, 8486>>, <<8488, 8488>>,
       <<8490, 8493>>, <<8495, 8500>>, <<8505, 8505>>, <<8508, 8511>>, <<8517, 8521>>, <<8526, 8526>>, <<8544, 8575>>, <<8579, 8580>>,
       <<9398, 9449>>, <<11264, 11387>>, <<11390, 11492>>, <<11499, 11502>>, <<11506, 11507>>, <<11520, 11557>>, <<11559, 11559>>, <<11565, 11565>>,
       <<42560, 42605>>, <<42624, 42651>>, <<42786, 42863>>, <<42865, 42887>>, <<42891, 42894>>, <<42896, 42972>>, <<42997, 42998>>, <<43002, 43002>>,
       <<43824, 43866>>, <<43872, 43880>>, <<43888, 43967>>, <<64256, 64262>>, <<64275, 64279>>, <<65313, 65338>>, <<65345, 65370>>, <<66560, 66639>>,
       <<66736, 66771>>, <<66776, 66811>>, <<66928, 66938>>, <<66940, 66954>>, <<66956, 66962>>, <<66964, 66965>>, <<66967, 66977>>, <<66979, 66993>>,
       <<66995, 67001>>, <<67003, 67004>>, <<68736, 68786>>, <<68800, 68850>>, <<68944, 68965>>, <<68976, 68997>>, <<71840, 71903>>, <<93760, 93823>>,
       <<93856, 93880>>, <<93883, 93907>>, <<119808, 119892>>, <<119894, 119964>>, <<119966, 119967>>, <<119970, 119970>>, <<119973, 119974>>, <<119977, 119980>>,
       <<119982, 119993>>, <<119995, 119995>>, <<119997, 120003>>, <<120005, 120069>>, <<120071, 120074>>, <<120077, 120084>>, <<120086, 120092>>, <<120094, 120121>>,
       <<120123, 120126>>, <<120128, 120132>>, <<120134, 120134>>, <<120138, 120144>>, <<120146, 120485>>, <<120488, 120512>>, <<120514, 120538>>, <<120540, 120570>>,
       <<120572, 120596>>, <<120598, 120628>>, <<120630, 120654>>, <<120656, 120686>>, <<120688, 120712>>, <<120714, 120744>>, <<120746, 120770>>, <<120772, 120779>>,
       <<122624, 122633>>, <<122635, 122654>>, <<122661, 122666>>, <<125184, 125251>>, <<127280, 127305>>, <<127312, 127337>>, <<127344, 127369>> >>,
   ignorable |->
    <<<<39, 39>>, <<46, 46>>, <<58, 58>>, <<94, 94>>, <<96, 96>>, <<168, 168>>, <<173, 173>>, <<175, 175>>,
       <<180, 180>>, <<183, 184>>, <<688, 879>>, <<884, 885>>, <<890, 890>>, <<900, 901>>, <<903, 903>>, <<1155, 1161>>,
       <<1369, 1369>>, <<1375, 1375>>, <<1425, 1469>>, <<1471, 1471>>, <<1473, 1474>>, <<1476, 1477>>, <<1479, 1479>>, <<1524, 1524>>,
       <<1536, 1541>>, <<1552, 1562>>, <<1564, 1564>>, <<1600, 1600>>, <<1611, 1631>>, <<1648, 1648>>, <<1750, 1757>>, <<1759, 1768>>,
       <<1770, 1773>>, <<1807, 1807>>, <<1809, 1809>>, <<1840, 1866>>, <<1958, 1968>>, <<2027, 2037>>, <<2042, 2042>>, <<2045, 2045>>,
       <<2070, 2093>>, <<2137, 2139>>, <<2184, 2184>>, <<2192, 2193>>, <<2199, 2207>>, <<2249, 2306>>, <<2362, 2362>>, <<2364, 2364>>,
       <<2369, 2376>>, <<2381, 2381>>, <<2385, 2391>>, <<2402, 2403>>, <<2417, 2417>>, <<2433, 2433>>, <<2492, 2492>>, <<2497, 2500>>,
       <<2509, 2509>>, <<2530, 2531>>, <<2558, 2558>>, <<2561, 2562>>, <<2620, 2620>>, <<2625, 2626>>, <<2631, 2632>>, <<2635, 2637>>,
       <<2641, 2641>>, <<2672, 2673>>, <<2677, 2677>>, <<2689, 2690>>, <<2748, 2748>>, <<2753, 2757>>, <<2759, 2760>>, <<2765, 2765>>,
       <<2786, 2787>>, <<2810, 2815>>, <<2817, 2817>>, <<2876, 2876>>, <<2879, 2879>>, <<2881, 2884>>, <<2893, 2893>>, <<2901, 2902>>,
       <<2914, 2915>>, <<2946, 2946>>, <<3008, 3008>>, <<3021, 3021>>, <<3072, 3072>>, <<3076, 3076>>, <<3132, 3132>>, <<3134, 3136>>,
       <<3142, 3144>>, <<3146, 3149>>, <<3157, 3158>>, <<3170, 3171>>, <<3201, 3201>>, <<3260, 3260>>, <<3263, 3263>>, <<3270, 3270>>,
       <<3276, 3277>>, <<3298, 3299>>, <<3328, 3329>>, <<3387, 3388>>, <<3393, 3396>>, <<3405, 3405>>, <<3426, 3427>>, <<3457, 3457>>,
       <<3530, 3530>>, <<3538, 3540>>, <<3542, 3542>>, <<3633, 3633>>, <<3636, 3642>>, <<3654, 3662>>, <<3761, 3761>>, <<3764, 3772>>,
       <<3782, 3782>>, <<3784, 3790>>, <<3864, 3865>>, <<3893, 3893>>, <<3895, 3895>>, <<3897, 3897>>, <<3953, 3966>>, <<3968, 3972>>,
       <<3974, 3975>>, <<3981, 3991>>, <<3993, 4028>>, <<4038, 4038>>, <<4141, 4144>>, <<4146, 4151>>, <<4153, 4154>>, <<4157, 4158>>,
       <<4184, 4185>>, <<4190, 4192>>, <<4209, 4212>>, <<4226, 4226>>, <<4229, 4230>>, <<4237, 4237>>, <<4253, 4253>>, <<4348, 4348>>,
       <<4957, 4959>>, <<5906, 5908>>, <<5938, 5939>>, <<5970, 5971>>, <<6002, 6003>>, <<6068, 6069>>, <<6071, 6077>>, <<6086, 6086>>,
       <<6089, 6099>>, <<6103, 6103>>, <<6109, 6109>>, <<6155, 6159>>, <<6211, 6211>>, <<6277, 6278>>, <<6313, 6313>>, <<6432, 6434>>,
       <<6439, 6440>>, <<6450, 6450>>, <<6457, 6459>>, <<6679, 6680>>, <<6683, 6683>>, <<6742, 6742>>, <<6744, 6750>>, <<6752, 6752>>,
       <<6754, 6754>>, <<6757, 6764>>, <<6771, 6780>>, <<6783, 6783>>, <<6823, 6823>>, <<6832, 6877>>, <<6880, 6891>>, <<6912, 6915>>,
       <<6964, 6964>>, <<6966, 6970>>, <<6972, 6972>>, <<6978, 6978>>, <<7019, 7027>>, <<7040, 7041>>, <<7074, 7077>>, <<7080, 7081>>,
       <<7083, 7085>>, <<7142, 7142>>, <<7144, 7145>>, <<7149, 7149>>, <<7151, 7153>>, <<7212, 7219>>, <<7222, 7223>>, <<7288, 7293>>,
       <<7376, 7378>>, <<7380, 7392>>, <<7394, 7400>>, <<7405, 7405>>, <<7412, 7412>>, <<7416, 7417>>, <<7468, 7530>>, <<7544, 7544>>,
       <<7579, 7679>>, <<8125, 8125>>, <<8127, 8129>>, <<8141, 8143>>, <<8157, 8159>>, <<8173, 8175>>, <<8189, 8190>>, <<8203, 8207>>,
       <<8216, 8217>>, <<8228, 8228>>, <<8231, 8231>>, <<8234, 8238>>, <<8288, 8292>>, <<8294, 8303>>, <<8305, 8305>>, <<8319, 8319>>,
       <<8336, 8348>>, <<8400, 8432>>, <<11388, 11389>>, <<11503, 11505>>, <<11631, 11631>>, <<11647, 11647>>, <<11744, 11775>>, <<11823, 11823>>,
       <<12293, 12293>>, <<12330, 12333>>, <<12337, 12341>>, <<12347, 12347>>, <<12441, 12446>>, <<12540, 12542>>, <<40981, 40981>>, <<42232, 42237>>,
       <<42508, 42508>>, <<42607, 42610>>, <<42612, 42621>>, <<42623, 42623>>, <<42652, 42655>>, <<42736, 42737>>, <<42752, 42785>>, <<42864, 42864>>,
       <<42888, 42890>>, <<42993, 42996>>, <<43000, 43001>>, <<43010, 43010>>, <<43014, 43014>>, <<43019, 43019>>, <<43045, 43046>>, <<43052, 43052>>,
       <<43204, 43205>>, <<43232, 43249>>, <<43263, 43263>>, <<43302, 43309>>, <<43335, 43345>>, <<43392, 43394>>, <<43443, 43443>>, <<43446, 43449>>,
       <<43452, 43453>>, <<43471, 43471>>, <<43493, 43494>>, <<43561, 43566>>, <<43569, 43570>>, <<43573, 43574>>, <<43587, 43587>>, <<43596, 43596>>,
       <<43632, 43632>>, <<43644, 43644>>, <<43696, 43696>>, <<43698, 43700>>, <<43703, 43704>>, <<43710, 43711>>, <<43713, 43713>>, <<43741, 43741>>,
       <<43756, 43757>>, <<43763, 43764>>, <<43766, 43766>>, <<43867, 43871>>, <<43881, 43883>>, <<44005, 44005>>, <<44008, 44008>>, <<44013, 44013>>,
       <<64286, 64286>>, <<64434, 64450>>, <<65024, 65039>>, <<65043, 65043>>, <<65056, 65071>>, <<65106, 65106>>, <<65109, 65109>>, <<65279, 65279>>,
       <<65287, 65287>>, <<65294, 65294>>, <<65306, 65306>>, <<65342, 65342>>, <<65344, 65344>>, <<65392, 65392>>, <<65438, 65439>>, <<65507, 65507>>,
       <<65529, 65531>>, <<66045, 66045>>, <<66272, 66272>>, <<66422, 66426>>, <<67456, 67461>>, <<67463, 67504>>, <<67506, 67514>>, <<68097, 68099>>,
       <<68101, 68102>>, <<68108, 68111>>, <<68152, 68154>>, <<68159, 68159>>, <<68325, 68326>>, <<68900, 68903>>, <<68942, 68942>>, <<68969, 68973>>,
       <<68975, 68975>>, <<69291, 69292>>, <<69317, 69317>>, <<69370, 69375>>, <<69446, 69456>>, <<69506, 69509>>, <<69633, 69633>>, <<69688, 69702>>,
       <<69744, 69744>>, <<69747, 69748>>, <<69759, 69761>>, <<69811, 69814>>, <<69817, 69818>>, <<69821, 69821>>, <<69826, 69826>>, <<69837, 69837>>,
       <<69888, 69890>>, <<69927, 69931>>, <<69933, 69940>>, <<70003, 70003>>, <<70016, 70017>>, <<70070, 70078>>, <<70089, 70092>>, <<70095, 70095>>,
       <<70191, 70193>>, <<70196, 70196>>, <<70198, 70199>>, <<70206, 70206>>, <<70209, 70209>>, <<70367, 70367>>, <<70371, 70378>>, <<70400, 70401>>,
       <<70459, 70460>>, <<70464, 70464>>, <<70502, 70508>>, <<70512, 70516>>, <<70587, 70592>>, <<70606, 70606>>, <<70608, 70608>>, <<70610, 70610>>,
       <<70625, 70626>>, <<70712, 70719>>, <<70722, 70724>>, <<70726, 70726>>, <<70750, 70750>>, <<70835, 70840>>, <<70842, 70842>>, <<70847, 70848>>,
       <<70850, 70851>>, <<71090, 71093>>, <<71100, 71101>>, <<71103, 71104>>, <<71132, 71133>>, <<71219, 71226>>, <<71229, 71229>>, <<71231, 71232>>,
       <<71339, 71339>>, <<71341, 71341>>, <<71344, 71349>>, <<71351, 71351>>, <<71453, 71453>>, <<71455, 71455>>, <<71458, 71461>>, <<71463, 71467>>,
       <<71727, 71735>>, <<71737, 71738>>, <<71995, 71996>>, <<71998, 71998>>, <<72003, 72003>>, <<72148, 72151>>, <<72154, 72155>>, <<72160, 72160>>,
       <<72193, 72202>>, <<72243, 72248>>, <<72251, 72254>>, <<72263, 72263>>, <<72273, 72278>>, <<72281, 72283>>, <<72330, 72342>>, <<72344, 72345>>,
       <<72544, 72544>>, <<72546, 72548>>, <<72550, 72550>>, <<72752, 72758>>, <<72760, 72765>>, <<72767, 72767>>, <<72850, 72871>>, <<72874, 72880>>,
       <<72882, 72883>>, <<72885, 72886>>, <<73009, 73014>>, <<73018, 73018>>, <<73020, 73021>>, <<73023, 73029>>, <<73031, 73031>>, <<73104, 73105>>,
       <<73109, 73109>>, <<73111, 73111>>, <<73177, 73177>>, <<73459, 73460>>, <<73472, 73473>>, <<73526, 73530>>, <<73536, 73536>>, <<73538, 73538>>,
       <<73562, 73562>>, <<78896, 78912>>, <<78919, 78933>>, <<90398, 90409>>, <<90413, 90415>>, <<92912, 92916>>, <<92976, 92982>>, <<92992, 92995>>,
       <<93504, 93506>>, <<93547, 93548>>, <<94031, 94031>>, <<94095, 94111>>, <<94176, 94177>>, <<94179, 94180>>, <<94194, 94195>>, <<110576, 110579>>,
       <<110581, 110587>>, <<110589, 110590>>, <<113821, 113822>>, <<113824, 113827>>, <<118528, 118573>>, <<118576, 118598>>, <<119143, 119145>>, <<119155, 119170>>,
       <<119173, 119179>>, <<119210, 119213>>, <<119362, 119364>>, <<121344, 121398>>, <<121403, 121452>>, <<121461, 121461>>, <<121476, 121476>>, <<121499, 121503>>,
       <<121505, 121519>>, <<122880, 122886>>, <<122888, 122904>>, <<122907, 122913>>, <<122915, 122916>>, <<122918, 122922>>, <<122928, 122989>>, <<123023, 123023>>,
       <<123184, 123197>>, <<123566, 123566>>, <<123628, 123631>>, <<124139, 124143>>, <<124398, 124399>>, <<124643, 124643>>, <<124646, 124646>>, <<124654, 124655>>,
       <<124661, 124661>>, <<124671, 124671>>, <<125136, 125142>>, <<125252, 125259>>, <<127995, 127999>>, <<917505, 917505>>, <<917536, 917631>>, <<917760, 917999>> >>]

\* the code of a code unit
CodeOf(c) == IF \E i \in 1..128 : Ascii[i] = c THEN (CHOOSE i \in 1..128 : Ascii[i] = c) - 1
             ELSE CHOOSE code \in 128..65535 : c = ToString(code)

\* the lower case of a code point that lowers to one code point, by the table
\* lower of such code points
LowerCode(lower, cp) ==
    LET Lowers(r) == cp >= r[1] /\ cp <= r[2] /\ (cp - r[1]) % r[3] = 0
    IN  IF \E i \in 1..Len(lower) : Lowers(lower[i])
        THEN cp + lower[CHOOSE i \in 1..Len(lower) : Lowers(lower[i])][4]
        ELSE cp

\* the code point that the code unit at i of u is, or is one half of: a high
\* surrogate (U+D800..U+DBFF) and the low one (U+DC00..U+DFFF) after it are one
CodePointAt(u, i) ==
    LET IsHigh(j) == j >= 1 /\ j <= Len(u) /\ u[j] >= 55296 /\ u[j] <= 56319
        IsLow(j) == j >= 1 /\ j <= Len(u) /\ u[j] >= 56320 /\ u[j] <= 57343
    IN  IF IsHigh(i) /\ IsLow(i + 1) THEN 65536 + (u[i] - 55296) * 1024 + (u[i + 1] - 56320)
        ELSE IF IsLow(i) /\ IsHigh(i - 1) THEN 65536 + (u[i - 1] - 55296) * 1024 + (u[i] - 56320)
        ELSE u[i]

\* a cased letter stands before (dir = -1) or after (dir = 1) the place i, with
\* none but case-ignorable code points between, by the case tables
CasedNext(tables, u, i, dir) ==
    LET InRanges(ranges, cp) ==
            \E r \in 1..Len(ranges) : cp >= ranges[r][1] /\ cp <= ranges[r][2]
    IN  \E j \in 1..Len(u) :
            /\ (j - i) * dir > 0
            /\ InRanges(tables.cased, CodePointAt(u, j))
            /\ \A k \in 1..Len(u) :
                   ((k - i) * dir > 0 /\ (j - k) * dir > 0)
                       => InRanges(tables.ignorable, CodePointAt(u, k))

\* the lower case of the code unit at i: a capital sigma (U+03A3) that ends a
\* word is the final small sigma (U+03C2), and of a code point beyond U+FFFF the
\* half of its lower case that stands where the code unit was
LowerUnit(tables, u, i) ==
    LET HalfOf(cp) ==
            IF cp < 65536 THEN cp
            ELSE IF u[i] <= 56319 THEN 55296 + ((cp - 65536) \div 1024)
            ELSE 56320 + ((cp - 65536) % 1024)
    IN  IF u[i] = 931
        THEN (IF CasedNext(tables, u, i, -1) /\ ~CasedNext(tables, u, i, 1) THEN 962 ELSE 963)
        ELSE HalfOf(LowerCode(tables.lower, CodePointAt(u, i)))

\* String.prototype.toLowerCase: the Unicode default case conversion; the capital
\* I with a dot above (U+0130) becomes an i and a combining dot above (U+0307)
toLowerCase(s) ==
    LET LowerUnits(tables, u) == [i \in 1..Len(u) |-> CharOfCode(LowerUnit(tables, u, i))]
        Lower(tables) ==
            IF \A i \in 1..Len(s) : \E k \in 1..128 : Ascii[k] = s[i]
            THEN [i \in 1..Len(s) |-> CharOfCode(LowerCode(tables.lower, CodeOf(s[i])))]
            ELSE Join(split(LowerUnits(tables,
                                       SubSeq([k \in 1..Len(s) |-> CodeOf(s[k])], 1, Len(s))),
                            CharOfCode(304)),
                      <<"i", CharOfCode(775)>>)
    IN  Lower(CaseTables)

Digits == <<"0", "1", "2", "3", "4", "5", "6", "7", "8", "9">>

RECURSIVE NatToString(_)
NatToString(n) ==
    IF n < 10 THEN <<Digits[n + 1]>>
    ELSE NatToString(n \div 10) \o <<Digits[(n % 10) + 1]>>

\* an integer in a template literal or in JSON text
NumberToString(n) == IF n < 0 THEN <<"-">> \o NatToString(-n) ELSE NatToString(n)

\* the length of the match of the pattern (fence json newline?) | (newline? fence)
\* that starts at position i, the first alternative tried first and the optional
\* newline greedy; 0 when neither alternative matches there
MatchLength(s, i) ==
    LET Fence == <<Grave, Grave, Grave>>
        FenceJson == <<Grave, Grave, Grave, "j", "s", "o", "n">>
    IN  IF s[i] \notin {Grave, "\n"} THEN 0
        ELSE IF IsAt(s, FenceJson, i)
        THEN IF IsAt(s, <<"\n">>, i + Len(FenceJson)) THEN Len(FenceJson) + 1 ELSE Len(FenceJson)
        ELSE IF IsAt(s, <<"\n">> \o Fence, i) THEN 1 + Len(Fence)
        ELSE IF IsAt(s, Fence, i) THEN Len(Fence)
        ELSE 0

RECURSIVE StripFences(_, _)
\* response.replace(pattern, '') with the global flag, from position i on: the
\* text up to the leftmost match is kept, the match dropped, and the scan goes
\* on after it
StripFences(s, i) ==
    LET starts == {j \in i..Len(s) : MatchLength(s, j) > 0}
    IN  IF starts = {} THEN SubSeq(s, i, Len(s))
        ELSE LET j == CHOOSE j \in starts : \A k \in starts : j <= k
             IN  SubSeq(s, i, j - 1) \o StripFences(s, j + MatchLength(s, j))

cleanResponse(response) == trim(StripFences(response, 1))

(***************************************************************************)
(* JavaScript values and JSON text                                         *)
(***************************************************************************)

Undefined == [t |-> "undefined"]
JNull == [t |-> "null"]
JBool(b) == [t |-> "boolean", b |-> b]
\* a number: an integer of magnitude below 10^9 is held as n
JNum(n) == [t |-> "number", n |-> n]
\* any other finite number is held in decimal: its significant digits (no zero
\* at either end) and the count of digits before the decimal point, so that the
\* value is 0.d1d2...dk * 10^point
JDec(neg, digits, point) == [t |-> "number", neg |-> neg, digits |-> digits, point |-> point]
\* Infinity and -Infinity
JInf(neg) == [t |-> "number", neg |-> neg, infinite |-> TRUE]
JStr(s) == [t |-> "string", s |-> s]
JArr(a) == [t |-> "array", a |-> a]
\* an object: its properties in insertion order, each [k |-> name, v |-> value]
JObj(p) == [t |-> "object", p |-> p]

\* the number that is not a number
NaN == [t |-> "number", nan |-> TRUE]
IsNaN(x) == x.t = "number" /\ "nan" \in DOMAIN x
\* x is a number held as n
IsSmallInteger(x) == x.t = "number" /\ "n" \in DOMAIN x
IsInfinite(x) == x.t = "number" /\ "infinite" \in DOMAIN x
\* Math.floor(x) === x: true of Infinity and -Infinity, false of NaN
IsInteger(x) ==
    x.t = "number" /\ ~IsNaN(x) /\ (IsSmallInteger(x) \/ IsInfinite(x) \/ x.point >= Len(x.digits))

HasProp(v, key) == v.t = "object" /\ \E i \in 1..Len(v.p) : v.p[i].k = key

\* property read v[key] on a non-nullish value; a missing property is undefined
Get(v, key) ==
    IF HasProp(v, key)
    THEN v.p[CHOOSE i \in 1..Len(v.p) : v.p[i].k = key].v
    ELSE Undefined

\* object property write during JSON.parse: a repeated name keeps its place and
\* takes the later value
SetProp(props, key, val) ==
    IF \E i \in 1..Len(props) : props[i].k = key
    THEN [i \in 1..Len(props) |->
              IF props[i].k = key THEN [k |-> key, v |-> val] ELSE props[i]]
    ELSE Append(props, [k |-> key, v |-> val])

\* Number::toString of 0.d1d2...dk * 10^point
DecimalToString(digits, point) ==
    LET k == Len(digits)
        e == point - 1
        Zeros(n) == [i \in 1..n |-> "0"]
    IN  IF k <= point /\ point <= 21 THEN digits \o Zeros(point - k)
        ELSE IF 0 < point /\ point <= 21
             THEN SubSeq(digits, 1, point) \o <<".">> \o SubSeq(digits, point + 1, k)
        ELSE IF -6 < point /\ point <= 0
             THEN <<"0", ".">> \o Zeros(-point) \o digits
        ELSE (IF k = 1 THEN digits ELSE <<digits[1], ".">> \o Tail(digits))
                 \o (IF e < 0 THEN <<"e", "-">> \o NatToString(-e)
                              ELSE <<"e", "+">> \o NatToString(e))

\* String(x) of a number
NumberText(x) ==
    IF IsSmallInteger(x) THEN NumberToString(x.n)
    ELSE IF IsNaN(x) THEN <<"N", "a", "N">>
    ELSE (IF x.neg THEN <<"-">> ELSE <<>>)
             \o (IF IsInfinite(x) THEN <<"I", "n", "f", "i", "n", "i", "t", "y">>
                 ELSE DecimalToString(x.digits, x.point))

HexDigits == <<"0", "1", "2", "3", "4", "5", "6", "7", "8", "9", "a", "b", "c", "d", "e", "f">>
\* a hexadecimal digit, in either case, and its value
IsHex(c) ==
    \E i \in 1..16 :
        c \in {HexDigits[i], <<"0", "1", "2", "3", "4", "5", "6", "7", "8", "9", "A", "B", "C", "D", "E", "F">>[i]}
HexValue(c) ==
    (CHOOSE i \in 1..16 :
         c \in {HexDigits[i], <<"0", "1", "2", "3", "4", "5", "6", "7", "8", "9", "A", "B", "C", "D", "E", "F">>[i]}) - 1
\* the four lower-case hexadecimal digits of a code
Hex4(code) ==
    << HexDigits[((code \div 4096) % 16) + 1], HexDigits[((code \div 256) % 16) + 1],
       HexDigits[((code \div 16) % 16) + 1], HexDigits[(code % 16) + 1] >>

\* c is the code unit of a code in lo..hi, all above 127
InCodes(c, lo, hi) ==
    /\ \A i \in 1..128 : c # Ascii[i]
    /\ \E code \in lo..hi : c = ToString(code)

\* what JSON.stringify writes for a code unit that is not half of a surrogate
\* pair: the two-character escapes, \u00xx for the other control characters,
\* \udxxx for a lone surrogate, and the code unit itself otherwise
EscapeChar(c) ==
    IF c = "\"" THEN <<"\\", "\"">>
    ELSE IF c = "\\" THEN <<"\\", "\\">>
    ELSE IF c = Backspace THEN <<"\\", "b">>
    ELSE IF c = "\t" THEN <<"\\", "t">>
    ELSE IF c = "\n" THEN <<"\\", "n">>
    ELSE IF c = "\f" THEN <<"\\", "f">>
    ELSE IF c = "\r" THEN <<"\\", "r">>
    ELSE IF c \in ControlChars
         THEN <<"\\", "u">> \o Hex4((CHOOSE i \in 1..32 : Ascii[i] = c) - 1)
    ELSE IF InCodes(c, 55296, 57343)
         THEN <<"\\", "u">> \o Hex4(CHOOSE code \in 55296..57343 : c = ToString(code))
    ELSE <<c>>

RECURSIVE EscapeFrom(_, _)
\* the code units of s from position i on, escaped; a high surrogate
\* (U+D800..U+DBFF) followed by a low one (U+DC00..U+DFFF) is written as it is
EscapeFrom(s, i) ==
    IF i > Len(s) THEN <<>>
    ELSE IF i < Len(s) /\ InCodes(s[i], 55296, 56319) /\ InCodes(s[i + 1], 56320, 57343)
         THEN <<s[i], s[i + 1]>> \o EscapeFrom(s, i + 2)
    ELSE EscapeChar(s[i]) \o EscapeFrom(s, i + 1)

Quote(s) == <<"\"">> \o EscapeFrom(s, 1) \o <<"\"">>

RECURSIVE Stringify(_)
\* JSON.stringify(value) with no indentation, of a value JSON.parse can return
Stringify(v) ==
    CASE v.t = "null" -> <<"n", "u", "l", "l">>
      [] v.t = "boolean" -> IF v.b THEN <<"t", "r", "u", "e">> ELSE <<"f", "a", "l", "s", "e">>
      [] v.t = "number" -> IF IsInfinite(v) THEN <<"n", "u", "l", "l">> ELSE NumberText(v)
      [] v.t = "string" -> Quote(v.s)
      [] v.t = "array" ->
            <<"[">> \o Join([i \in 1..Len(v.a) |-> Stringify(v.a[i])], <<",">>) \o <<"]">>
      [] v.t = "object" ->
            <<"{">> \o Join([i \in 1..Len(v.p) |->
                               Quote(v.p[i].k) \o <<":">> \o Stringify(v.p[i].v)], <<",">>)
                    \o <<"}">>

ParseFail == [ok |-> FALSE, v |-> Undefined, i |-> 0]
ParseOk(val, next) == [ok |-> TRUE, v |-> val, i |-> next]

RECURSIVE SkipWs(_, _)
\* the position after the white space of the JSON grammar: space, LF, TAB and CR only
SkipWs(s, i) ==
    IF i <= Len(s) /\ s[i] \in {" ", "\n", "\t", "\r"} THEN SkipWs(s, i + 1) ELSE i

DigitValue(c) == (CHOOSE i \in 1..Len(Digits) : Digits[i] = c) - 1
IsDigit(c) == \E i \in 1..Len(Digits) : Digits[i] = c

\* the position after the run of digits that starts at i
DigitsEnd(s, i) ==
    IF \A k \in i..Len(s) : IsDigit(s[k]) THEN (IF i > Len(s) THEN i ELSE Len(s) + 1)
    ELSE CHOOSE k \in i..Len(s) : ~IsDigit(s[k]) /\ \A j \in i..(k - 1) : IsDigit(s[j])

\* an exponent beyond this is beyond every double, whatever the digits of a
\* text shorter than this
MaxExponent == 100000

RECURSIVE ParseDigits(_, _, _)
\* the value of a sequence of digits 0..9 after acc, or a value above the cap
\* when it is beyond
ParseDigits(ds, acc, cap) ==
    IF Len(ds) = 0 \/ acc > cap THEN acc
    ELSE ParseDigits(Tail(ds), acc * 10 + Head(ds), cap)

\* a decimal [ds, point]: the value 0.d1 d2 ... dn * 10^point of a sequence ds of
\* digits 0..9; ds has no zero at either end, and zero has no digit at all
Decimal(ds, point) ==
    IF \A i \in 1..Len(ds) : ds[i] = 0 THEN [ds |-> <<>>, point |-> 0]
    ELSE LET first == CHOOSE i \in 1..Len(ds) : ds[i] # 0 /\ \A j \in 1..(i - 1) : ds[j] = 0
             last == CHOOSE i \in 1..Len(ds) : ds[i] # 0 /\ \A j \in (i + 1)..Len(ds) : ds[j] = 0
         IN  [ds |-> SubSeq(ds, first, last), point |-> point - (first - 1)]

\* the decimal of a sequence of digit characters with the point after the first
\* `point' of them
DecimalOf(digits, point) ==
    Decimal(SubSeq([i \in 1..Len(digits) |-> DigitValue(digits[i])], 1, Len(digits)), point)

\* the decimal of a natural number
DecimalOfNat(n) == DecimalOf(NatToString(n), Len(NatToString(n)))

\* the natural number, below the cap or above it, that a decimal is
NatOfDecimal(d, cap) ==
    ParseDigits(d.ds \o SubSeq([i \in 1..(d.point - Len(d.ds)) |-> 0], 1, d.point - Len(d.ds)),
                0, cap)

\* the i-th digit of a decimal, 0 where it has none
DigitAt(d, i) == IF i >= 1 /\ i <= Len(d.ds) THEN d.ds[i] ELSE 0

\* a < b for decimals a and b
DecimalLess(a, b) ==
    IF Len(b.ds) = 0 THEN FALSE
    ELSE IF Len(a.ds) = 0 THEN TRUE
    ELSE IF a.point # b.point THEN a.point < b.point
    ELSE \E i \in 1..Len(b.ds) :
            /\ \A j \in 1..(i - 1) : j <= Len(a.ds) /\ a.ds[j] = b.ds[j]
            /\ (i <= Len(a.ds) => a.ds[i] < b.ds[i])

\* a + b, or a - b for a >= b (minus): digit by digit from the place 10^(hi-1)
\* down, a carry or a borrow coming from the nearest place below that makes one,
\* through places that pass it on
DecimalAdd(a, b, minus) ==
    LET hi == (IF a.point > b.point THEN a.point ELSE b.point) + 1
        lo == IF a.point - Len(a.ds) < b.point - Len(b.ds)
              THEN a.point - Len(a.ds) ELSE b.point - Len(b.ds)
        A(i) == DigitAt(a, a.point - (hi - i))
        B(i) == DigitAt(b, b.point - (hi - i))
        Carry(i) ==
            IF \E j \in (i + 1)..(hi - lo) :
                   /\ IF minus THEN A(j) < B(j) ELSE A(j) + B(j) >= 10
                   /\ \A k \in (i + 1)..(j - 1) : IF minus THEN A(k) = B(k) ELSE A(k) + B(k) = 9
            THEN 1 ELSE 0
    IN  Decimal(SubSeq([i \in 1..(hi - lo) |->
                           IF minus THEN (10 + A(i) - B(i) - Carry(i)) % 10
                           ELSE (A(i) + B(i) + Carry(i)) % 10],
                       1, hi - lo),
                hi)

RECURSIVE TimesPowerOfTwo(_, _)
\* d * 2^e, thirty-two steps at a time.  To double, a digit doubles and takes a
\* carry when the next one is 5 or more; to halve, a digit halves and takes 5
\* when the one before it is odd.
TimesPowerOfTwo(d, e) ==
    IF e > 32 /\ Len(d.ds) > 0 THEN TimesPowerOfTwo(TimesPowerOfTwo(d, 32), e - 32)
    ELSE IF e < -32 /\ Len(d.ds) > 0 THEN TimesPowerOfTwo(TimesPowerOfTwo(d, -32), e + 32)
    ELSE IF e > 0 /\ Len(d.ds) > 0
    THEN TimesPowerOfTwo(
             [ds |-> (IF d.ds[1] >= 5 THEN <<1>> ELSE <<>>)
                         \o SubSeq([i \in 1..Len(d.ds) |->
                                       (2 * d.ds[i]
                                            + (IF i < Len(d.ds) /\ d.ds[i + 1] >= 5 THEN 1 ELSE 0)) % 10],
                                   1, IF d.ds[Len(d.ds)] = 5 THEN Len(d.ds) - 1 ELSE Len(d.ds)),
              point |-> d.point + (IF d.ds[1] >= 5 THEN 1 ELSE 0)],
             e - 1)
    ELSE IF e < 0 /\ Len(d.ds) > 0
    THEN TimesPowerOfTwo(
             [ds |-> SubSeq([i \in 1..(Len(d.ds) + 1) |->
                                ((IF i <= Len(d.ds) THEN d.ds[i] ELSE 0)
                                     + 10 * (IF i > 1 THEN d.ds[i - 1] % 2 ELSE 0)) \div 2],
                            IF d.ds[1] = 1 THEN 2 ELSE 1,
                            IF d.ds[Len(d.ds)] % 2 = 1 THEN Len(d.ds) + 1 ELSE Len(d.ds)),
              point |-> d.point - (IF d.ds[1] = 1 THEN 1 ELSE 0)],
             e + 1)
    ELSE d

\* d with its k-th digit raised (up) or lowered by one, the carry or the borrow
\* going through the digits before it; to lower, d is no less than that unit.
\* p is d with k digits or more, stop the digit that passes the carry on.
StepDigit(d, k, up) ==
    LET Step(p, stop) ==
            Decimal((IF up /\ \A i \in 1..k : p[i] = 9 THEN <<1>> ELSE <<>>)
                        \o [i \in 1..Len(p) |->
                               IF i > k THEN p[i]
                               ELSE IF \A j \in i..k : p[j] = stop THEN 9 - stop
                               ELSE IF \A j \in (i + 1)..k : p[j] = stop
                               THEN p[i] + (IF up THEN 1 ELSE -1)
                               ELSE p[i]],
                    d.point + (IF up /\ \A i \in 1..k : p[i] = 9 THEN 1 ELSE 0))
    IN  Step(SubSeq([i \in 1..(IF Len(d.ds) > k THEN Len(d.ds) ELSE k) |-> DigitAt(d, i)],
                    1, IF Len(d.ds) > k THEN Len(d.ds) ELSE k),
             IF up THEN 9 ELSE 0)

\* 2^52, the least significand of a normal double
TwoTo52 == [ds |-> <<4, 5, 0, 3, 5, 9, 9, 6, 2, 7, 3, 7, 0, 4, 9, 6>>, point |-> 16]

\* whether the part of d after its first k digits is above (1), at (0) or below
\* (-1) half a unit of the k-th digit
HalfUnit(d, k) ==
    IF DigitAt(d, k + 1) > 5 THEN 1
    ELSE IF DigitAt(d, k + 1) < 5 THEN -1
    ELSE IF Len(d.ds) > k + 1 THEN 1 ELSE 0

RECURSIVE RoundSignificand(_, _)
\* the double [m, e] nearest to w * 2^e: w is scaled until 2^52 <= w < 2^53, or
\* w < 2^52 and e = -1074, the exponent of the subnormal doubles, and then
\* rounded to the nearest integer, of two equally near the even one; 2^53 is
\* 2^52 with the next exponent, and e = 1024 stands for Infinity
RoundSignificand(w, e) ==
    LET k == IF w.point > 0 THEN w.point ELSE 0
        lower == Decimal(SubSeq(w.ds, 1, IF Len(w.ds) < k THEN Len(w.ds) ELSE k), k)
        half == IF w.point >= 0 THEN HalfUnit(w, k) ELSE -1
        Double(m, top) ==
            IF e > 971 \/ (e = 971 /\ m = top) THEN [m |-> TwoTo52, e |-> 1024]
            ELSE IF m = top THEN [m |-> TwoTo52, e |-> e + 1]
            ELSE [m |-> m, e |-> e]
    IN  IF ~DecimalLess(w, TimesPowerOfTwo(TwoTo52, 1))
        THEN RoundSignificand(TimesPowerOfTwo(w, -1), e + 1)
        ELSE IF e > -1074 /\ DecimalLess(w, TwoTo52)
        THEN RoundSignificand(TimesPowerOfTwo(w, 1), e - 1)
        ELSE Double(IF half = 1 \/ (half = 0 /\ DigitAt(lower, lower.point) % 2 = 1)
                    THEN StepDigit([ds |-> lower.ds, point |-> k], k, TRUE)
                    ELSE lower,
                    TimesPowerOfTwo(TwoTo52, 1))

\* the double nearest to a decimal d > 0: [m, e] for the double m * 2^e, m a
\* decimal that is an integer below 2^53.  d is first brought near 2^52 by the
\* power of two that 3.322 binary digits to a decimal one tell.
NearestDouble(d) ==
    LET e == IF (((d.point - 1) * 3322) \div 1000) - 52 < -1074 THEN -1074
             ELSE (((d.point - 1) * 3322) \div 1000) - 52
    IN  IF d.point > 309 THEN [m |-> TwoTo52, e |-> 1024]
        ELSE IF d.point < -323 THEN [m |-> Decimal(<<>>, 0), e |-> -1074]
        ELSE RoundSignificand(TimesPowerOfTwo(d, 0 - e), e)

RECURSIVE ShortestFrom(_, _, _)
\* the decimal of fewest digits, k or more, between the midpoints c[2] and c[3]
\* to the doubles below and above that of c[1], which are read as the double
\* between them when its significand is even; of the two of that many digits
\* around c[1], c[1] cut after k digits (down) and that with its last digit
\* raised (up), the nearer one, of two equally near the even one
ShortestFrom(c, even, k) ==
    LET Within(y) == IF even THEN ~DecimalLess(y, c[2]) /\ ~DecimalLess(c[3], y)
                     ELSE DecimalLess(c[2], y) /\ DecimalLess(y, c[3])
        Nearer(down, up, downWithin, upWithin) ==
            IF k < 17 /\ ~downWithin /\ ~upWithin THEN ShortestFrom(c, even, k + 1)
            ELSE IF ~upWithin THEN down
            ELSE IF ~downWithin THEN up
            ELSE IF HalfUnit(c[1], k) < 0 \/ (HalfUnit(c[1], k) = 0 /\ DigitAt(c[1], k) % 2 = 0)
            THEN down
            ELSE up
        cut == SubSeq(c[1].ds, 1, IF Len(c[1].ds) < k THEN Len(c[1].ds) ELSE k)
    IN  Nearer(Decimal(cut, c[1].point),
               StepDigit([ds |-> cut, point |-> c[1].point], k, TRUE),
               Within(Decimal(cut, c[1].point)),
               Within(StepDigit([ds |-> cut, point |-> c[1].point], k, TRUE)))

\* [e, d]: the exponent of the double r = m * 2^e and the digits Number::toString
\* writes for it, the shortest decimal that reads as that double.  The midpoints
\* are (2m - 1) * 2^(e-1), or (4m - 1) * 2^(e-2) above a power of two, and
\* (2m + 1) * 2^(e-1).
ShortestDecimal(r) ==
    LET Mid(x, up, by) == TimesPowerOfTwo(StepDigit(x, x.point, up), r.e - by)
    IN  [e |-> r.e,
         d |-> IF r.e = 1024 \/ Len(r.m.ds) = 0 THEN Decimal(<<>>, 0)
               ELSE ShortestFrom(<<TimesPowerOfTwo(r.m, r.e),
                                   IF r.m = TwoTo52 /\ r.e > -1074
                                   THEN Mid(TimesPowerOfTwo(r.m, 2), FALSE, 2)
                                   ELSE Mid(TimesPowerOfTwo(r.m, 1), FALSE, 1),
                                   Mid(TimesPowerOfTwo(r.m, 1), TRUE, 1)>>,
                                 DigitAt(r.m, r.m.point) % 2 = 0, 1)]

\* the number a decimal d >= 0 rounds to, written as Number::toString writes
\* it.  A decimal of 15 digits or fewer between 10^-307 and 10^308 is itself the
\* shortest decimal of its double.
NumberOf(neg, d) ==
    LET Number(s) ==
            IF s.e = 1024 THEN JInf(neg)
            ELSE IF Len(s.d.ds) <= s.d.point /\ s.d.point <= 9
            THEN JNum((IF neg THEN -1 ELSE 1) * NatOfDecimal(s.d, 1000000000))
            ELSE JDec(neg, SubSeq([i \in 1..Len(s.d.ds) |-> Digits[s.d.ds[i] + 1]],
                                  1, Len(s.d.ds)),
                      s.d.point)
    IN  Number(IF Len(d.ds) <= 15 /\ d.point >= -306 /\ d.point <= 308
               THEN [e |-> 0, d |-> d]
               ELSE ShortestDecimal(NearestDouble(d)))

\* the number JSON.parse reads from the digits ds with the point after the
\* first `point' of them
MakeNumber(neg, ds, point) == NumberOf(neg, DecimalOf(ds, point))

\* the value of the exponent's digits s[start..end-1], or MaxExponent when it
\* is beyond
ExponentDigits(s, start, end) ==
    IF DecimalOf(SubSeq(s, start, end - 1), end - start).point > 6 THEN MaxExponent
    ELSE NatOfDecimal(DecimalOf(SubSeq(s, start, end - 1), end - start), MaxExponent)

\* ([eE] [+-]? [0-9]+)? from s[e] on, after the digits and point of the mantissa
ExponentPart(s, neg, digits, point, e) ==
    LET hasExponent == e <= Len(s) /\ s[e] \in {"e", "E"}
        start == IF e + 1 <= Len(s) /\ s[e + 1] \in {"+", "-"} THEN e + 2 ELSE e + 1
    IN  IF hasExponent /\ DigitsEnd(s, start) = start THEN ParseFail
        ELSE ParseOk(MakeNumber(neg, digits,
                                point + (IF ~hasExponent THEN 0
                                         ELSE (IF s[start - 1] = "-" THEN -1 ELSE 1)
                                                  * ExponentDigits(s, start, DigitsEnd(s, start)))),
                     IF hasExponent THEN DigitsEnd(s, start) ELSE e)

\* the fraction's digits s[intEnd+1..fracEnd-1] after a point at s[intEnd], or
\* none (fracEnd = intEnd), after the integer part s[j..intEnd-1]
FractionPart(s, neg, j, intEnd, fracEnd) ==
    IF fracEnd = intEnd + 1 THEN ParseFail
    ELSE ExponentPart(s, neg, SubSeq(s, j, intEnd - 1) \o SubSeq(s, intEnd + 1, fracEnd - 1),
                      intEnd - j, fracEnd)

\* (. [0-9]+)? and the rest, after the integer part s[j..intEnd-1]
IntegerPart(s, neg, j, intEnd) ==
    IF intEnd = j THEN ParseFail
    ELSE FractionPart(s, neg, j, intEnd,
                      IF intEnd <= Len(s) /\ s[intEnd] = "." THEN DigitsEnd(s, intEnd + 1)
                      ELSE intEnd)

\* (0 | [1-9][0-9]*) and the rest, from s[j] on
UnsignedNumber(s, neg, j) ==
    IntegerPart(s, neg, j, IF j <= Len(s) /\ s[j] = "0" THEN j + 1 ELSE DigitsEnd(s, j))

\* a JSON number: -? (0 | [1-9][0-9]*) (. [0-9]+)? ([eE] [+-]? [0-9]+)?
ParseNumber(s, i) == UnsignedNumber(s, s[i] = "-", IF s[i] = "-" THEN i + 1 ELSE i)

RECURSIVE ParseString(_, _, _)
\* the characters after an opening quote, up to the closing one; a raw control
\* character (U+0000..U+001F) is a syntax error, and so is an escape other than
\* \" \\ \/ \b \f \n \r \t and \u with four hexadecimal digits
ParseString(s, i, acc) ==
    IF i > Len(s) THEN ParseFail
    ELSE IF s[i] = "\"" THEN ParseOk(JStr(acc), i + 1)
    ELSE IF s[i] \in ControlChars THEN ParseFail
    ELSE IF s[i] = "\\"
         THEN IF i + 1 > Len(s) THEN ParseFail
              ELSE CASE s[i + 1] = "\"" -> ParseString(s, i + 2, Append(acc, "\""))
                     [] s[i + 1] = "\\" -> ParseString(s, i + 2, Append(acc, "\\"))
                     [] s[i + 1] = "/" -> ParseString(s, i + 2, Append(acc, "/"))
                     [] s[i + 1] = "b" -> ParseString(s, i + 2, Append(acc, Backspace))
                     [] s[i + 1] = "f" -> ParseString(s, i + 2, Append(acc, "\f"))
                     [] s[i + 1] = "n" -> ParseString(s, i + 2, Append(acc, "\n"))
                     [] s[i + 1] = "r" -> ParseString(s, i + 2, Append(acc, "\r"))
                     [] s[i + 1] = "t" -> ParseString(s, i + 2, Append(acc, "\t"))
                     [] s[i + 1] = "u" ->
                            IF i + 5 <= Len(s) /\ \A j \in (i + 2)..(i + 5) : IsHex(s[j])
                            THEN ParseString(s, i + 6,
                                     Append(acc, CharOfCode(HexValue(s[i + 2]) * 4096
                                                            + HexValue(s[i + 3]) * 256
                                                            + HexValue(s[i + 4]) * 16
                                                            + HexValue(s[i + 5]))))
                            ELSE ParseFail
                     [] OTHER -> ParseFail
    ELSE ParseString(s, i + 1, Append(acc, s[i]))

RECURSIVE ParseValue(_, _)
RECURSIVE ParseElements(_, _, _)
RECURSIVE ParseMembers(_, _, _)

\* ParseElements once the element r is read: a comma, the closing bracket or an error
ElementsAfter(s, acc, r) ==
    IF ~r.ok THEN ParseFail
    ELSE LET k == SkipWs(s, r.i)
         IN  IF k > Len(s) THEN ParseFail
             ELSE IF s[k] = "," THEN ParseElements(s, k + 1, Append(acc, r.v))
             ELSE IF s[k] = "]" THEN ParseOk(JArr(Append(acc, r.v)), k + 1)
             ELSE ParseFail

\* the elements of an array after "[" (or after a comma), acc holding those read
ParseElements(s, i, acc) ==
    LET j == SkipWs(s, i)
    IN  IF j > Len(s) THEN ParseFail
        ELSE IF Len(acc) = 0 /\ s[j] = "]" THEN ParseOk(JArr(acc), j + 1)
        ELSE ElementsAfter(s, acc, ParseValue(s, j))

\* ParseMembers once the member's value r is read
MembersAfterValue(s, props, name, r) ==
    IF ~r.ok THEN ParseFail
    ELSE LET k == SkipWs(s, r.i)
         IN  IF k > Len(s) THEN ParseFail
             ELSE IF s[k] = "," THEN ParseMembers(s, k + 1, SetProp(props, name, r.v))
             ELSE IF s[k] = "}" THEN ParseOk(JObj(SetProp(props, name, r.v)), k + 1)
             ELSE ParseFail

\* ParseMembers once the member's name key is read: a colon, then the value
MembersAfterName(s, props, key) ==
    IF ~key.ok THEN ParseFail
    ELSE LET c == SkipWs(s, key.i)
         IN  IF c > Len(s) \/ s[c] # ":" THEN ParseFail
             ELSE MembersAfterValue(s, props, key.v.s, ParseValue(s, c + 1))

\* the members of an object after "{" (or after a comma), props holding those read
ParseMembers(s, i, props) ==
    LET j == SkipWs(s, i)
    IN  IF j > Len(s) THEN ParseFail
        ELSE IF Len(props) = 0 /\ s[j] = "}" THEN ParseOk(JObj(props), j + 1)
        ELSE IF s[j] # "\"" THEN ParseFail
        ELSE MembersAfterName(s, props, ParseString(s, j + 1, <<>>))

ParseValue(s, i) ==
    LET j == SkipWs(s, i)
    IN  IF j > Len(s) THEN ParseFail
        ELSE CASE s[j] = "[" -> ParseElements(s, j + 1, <<>>)
               [] s[j] = "{" -> ParseMembers(s, j + 1, <<>>)
               [] s[j] = "\"" -> ParseString(s, j + 1, <<>>)
               [] s[j] = "-" \/ IsDigit(s[j]) -> ParseNumber(s, j)
               [] IsAt(s, <<"t", "r", "u", "e">>, j) -> ParseOk(JBool(TRUE), j + 4)
               [] IsAt(s, <<"f", "a", "l", "s", "e">>, j) -> ParseOk(JBool(FALSE), j + 5)
               [] IsAt(s, <<"n", "u", "l", "l">>, j) -> ParseOk(JNull, j + 4)
               [] OTHER -> ParseFail

\* the value read, unless text goes on after it
WholeText(text, r) ==
    IF r.ok /\ SkipWs(text, r.i) > Len(text)
    THEN [ok |-> TRUE, v |-> r.v]
    ELSE [ok |-> FALSE, v |-> Undefined]

\* JSON.parse(text): [ok, v]; ok is FALSE where JSON.parse throws a SyntaxError
JSONparse(text) == WholeText(text, ParseValue(text, 1))

(***************************************************************************)
(* The response parser                                                     *)
(***************************************************************************)

\* message content as the SDK types it: a string, null, or a list of typed parts
StringContent(text) == [kind |-> "string", text |-> text]
NullContent == [kind |-> "null"]
PartsContent(parts) == [kind |-> "parts", parts |-> parts]

RECURSIVE TextOfParts(_)
\* content.filter(part => part.type === 'text').map(part => part.text).join('')
TextOfParts(parts) ==
    IF Len(parts) = 0 THEN <<>>
    ELSE (IF Head(parts).type = "text" THEN Head(parts).text ELSE <<>>)
             \o TextOfParts(Tail(parts))

\* [threw, text]: threw where extractFinalResponse throws
extractFinalResponse(msgs) ==
    LET finalMessage == msgs[Len(msgs)]
    IN  IF finalMessage.role # "assistant" THEN [threw |-> TRUE, text |-> <<>>]
        ELSE IF finalMessage.content.kind = "string"
             THEN [threw |-> FALSE, text |-> finalMessage.content.text]
        ELSE IF finalMessage.content.kind = "parts"
             THEN [threw |-> FALSE, text |-> TextOfParts(finalMessage.content.parts)]
        ELSE [threw |-> TRUE, text |-> <<>>]

\* [threw, value]: threw where JSON.parse fails and the function rethrows
parseLintingResponse(response) ==
    LET Parsed(parsed) == [threw |-> ~parsed.ok, value |-> parsed.v]
        cleanedResponse == cleanResponse(response)
    IN  Parsed(JSONparse(cleanedResponse))

(***************************************************************************)
(* The diagnostic mapper                                                   *)
(***************************************************************************)

\* the property names of a finding, of its fix and of the arguments of read_file
K ==
    [lineNumber |-> <<"l", "i", "n", "e", "N", "u", "m", "b", "e", "r">>,
     problematicText |-> <<"p", "r", "o", "b", "l", "e", "m", "a", "t", "i", "c", "T", "e", "x", "t">>,
     message |-> <<"m", "e", "s", "s", "a", "g", "e">>,
     severity |-> <<"s", "e", "v", "e", "r", "i", "t", "y">>,
     fix |-> <<"f", "i", "x">>,
     title |-> <<"t", "i", "t", "l", "e">>,
     replacement |-> <<"r", "e", "p", "l", "a", "c", "e", "m", "e", "n", "t">>,
     filePath |-> <<"f", "i", "l", "e", "P", "a", "t", "h">>]

\* [threw, severity]: severity.toLowerCase() is a TypeError unless severity is a string
convertSeverity(severity) ==
    IF severity.t # "string" THEN [threw |-> TRUE, severity |-> "none"]
    ELSE LET Severity(lower) ==
                 CASE lower = <<"e", "r", "r", "o", "r">> -> "Error"
                   [] lower = <<"w", "a", "r", "n", "i", "n", "g">> -> "Warning"
                   [] lower = <<"i", "n", "f", "o", "r", "m", "a", "t", "i", "o", "n">> -> "Information"
                   [] lower = <<"h", "i", "n", "t">> -> "Hint"
                   [] OTHER -> "Information"
         IN  [threw |-> FALSE, severity |-> Severity(toLowerCase(severity.s))]

\* a TextDocument: its lines, without their line ends, and its end-of-line sequence
TextDocument(lines, eol) == [lines |-> lines, eol |-> eol]

\* document.getText()
getText(doc) == Join(doc.lines, doc.eol)

\* how a number x stands to an integer n: below (-1), equal (0), above (1), or,
\* for NaN, none of these (2)
CompareToInteger(x, n) ==
    IF IsNaN(x) THEN 2
    ELSE IF IsSmallInteger(x) THEN (IF x.n < n THEN -1 ELSE IF x.n = n THEN 0 ELSE 1)
    ELSE IF IsInfinite(x) THEN (IF x.neg THEN -1 ELSE 1)
    ELSE IF x.neg /\ n >= 0 THEN -1
    ELSE IF ~x.neg /\ n < 0 THEN 1
    ELSE IF DecimalOf(x.digits, x.point) = DecimalOfNat(IF n < 0 THEN 0 - n ELSE n) THEN 0
    ELSE IF DecimalLess(DecimalOf(x.digits, x.point),
                        DecimalOfNat(IF n < 0 THEN 0 - n ELSE n)) = x.neg
    THEN 1
    ELSE -1

\* document.lineAt(line) throws if typeof line !== 'number' || line < 0 ||
\* line >= lines.length || Math.floor(line) !== line
LineExists(doc, lineNumber) ==
    /\ lineNumber.t = "number"
    /\ CompareToInteger(lineNumber, 0) # -1
    /\ CompareToInteger(lineNumber, Len(doc.lines)) \notin {0, 1}
    /\ IsInteger(lineNumber)

\* document.lineAt(n).text
lineAt(doc, n) == doc.lines[n + 1]

RECURSIVE ToStringThrows(_)
\* String(x) is a TypeError for an object with a property toString of its own
\* (no value JSON.parse returns can be called), alone or inside an array
ToStringThrows(x) ==
    CASE x.t = "object" -> HasProp(x, <<"t", "o", "S", "t", "r", "i", "n", "g">>)
      [] x.t = "array" -> \E i \in 1..Len(x.a) : ToStringThrows(x.a[i])
      [] OTHER -> FALSE

RECURSIVE SearchString(_)
\* the search string indexOf coerces its argument to: String(x)
SearchString(x) ==
    CASE x.t = "string" -> x.s
      [] x.t = "undefined" -> <<"u", "n", "d", "e", "f", "i", "n", "e", "d">>
      [] x.t = "null" -> <<"n", "u", "l", "l">>
      [] x.t = "boolean" -> IF x.b THEN <<"t", "r", "u", "e">> ELSE <<"f", "a", "l", "s", "e">>
      [] x.t = "number" -> NumberText(x)
      [] x.t = "array" ->
            Join([i \in 1..Len(x.a) |->
                     IF x.a[i].t \in {"null", "undefined"} THEN <<>> ELSE SearchString(x.a[i])],
                 <<",">>)
      [] x.t = "object" -> <<"[", "o", "b", "j", "e", "c", "t", " ", "O", "b", "j", "e", "c", "t", "]">>

\* JavaScript truthiness of a parsed value
Truthy(x) ==
    CASE x.t \in {"undefined", "null"} -> FALSE
      [] x.t = "boolean" -> x.b
      [] x.t = "number" -> ~IsNaN(x) /\ ~(IsSmallInteger(x) /\ x.n = 0)
      [] x.t = "string" -> Len(x.s) > 0
      [] OTHER -> TRUE

\* if (startIndex === -1): the text is not on the line
NotFound(startIndex) == startIndex = -1

\* x.length of a value other than undefined and null: the length of a string or
\* of an array, the property of that name of an object, undefined otherwise
LengthOf(x) ==
    CASE x.t = "string" -> JNum(Len(x.s))
      [] x.t = "array" -> JNum(Len(x.a))
      [] x.t = "object" -> Get(x, <<"l", "e", "n", "g", "t", "h">>)
      [] OTHER -> Undefined

\* index + v for an integer index: the sum with a number (null counts 0, false 0,
\* true 1, undefined NaN), and with a string, an array or an object the text
\* of the index followed by String(v).  Sum is the sum of two numbers given by
\* sign and magnitude, rounded to a double; a number held in decimal is added
\* as the double m * 2^e that it is.
Plus(index, v) ==
    LET Sum(aNeg, a, bNeg, b) ==
            NumberOf(IF aNeg # bNeg /\ DecimalLess(a, b) THEN bNeg ELSE aNeg,
                     DecimalAdd(IF aNeg # bNeg /\ DecimalLess(a, b) THEN b ELSE a,
                                IF aNeg # bNeg /\ DecimalLess(a, b) THEN a ELSE b,
                                aNeg # bNeg))
        Exact(r) == TimesPowerOfTwo(r.m, r.e)
    IN  CASE v.t = "number" ->
                IF IsNaN(v) \/ IsInfinite(v) THEN v
                ELSE IF IsSmallInteger(v) /\ index + v.n > -1000000000 /\ index + v.n < 1000000000
                THEN JNum(index + v.n)
                ELSE Sum(index < 0, DecimalOfNat(IF index < 0 THEN 0 - index ELSE index),
                         IF IsSmallInteger(v) THEN v.n < 0 ELSE v.neg,
                         IF IsSmallInteger(v) THEN DecimalOfNat(IF v.n < 0 THEN 0 - v.n ELSE v.n)
                         ELSE Exact(NearestDouble(DecimalOf(v.digits, v.point))))
          [] v.t = "undefined" -> NaN
          [] v.t = "null" -> JNum(index)
          [] v.t = "boolean" -> JNum(index + (IF v.b THEN 1 ELSE 0))
          [] OTHER -> JStr(NumberToString(index) \o SearchString(v))

\* EndIndex with the end taken one column too far
EndIndexOneTooFar(startIndex, problematicText) == Plus(startIndex + 1, LengthOf(problematicText))

\* startIndex + item.problematicText.length
EndIndex(startIndex, problematicText) == Plus(startIndex, LengthOf(problematicText))

RECURSIVE RadixValue(_, _, _)
\* the decimal of digits of the radix 2^bits after the value acc
RadixValue(ds, bits, acc) ==
    IF Len(ds) > 0 /\ Len(acc.ds) >= 0
    THEN RadixValue(Tail(ds), bits,
                    DecimalAdd(TimesPowerOfTwo(acc, bits), DecimalOfNat(HexValue(ds[1])), FALSE))
    ELSE acc

\* ToNumber of a string: white space trimmed, the empty text 0; after a sign or
\* without one Infinity or a decimal literal, the digits u[1..intEnd-1], the
\* fraction digits u[intEnd+1..fracEnd-1] after a point at intEnd if there is
\* one, and the exponent u[expStart..] after an e at fracEnd if there is one,
\* a digit standing before or after the point; without a sign, digits after
\* 0x, 0o or 0b in that radix; NaN otherwise
StringToNumber(s) ==
    LET Literal(u, neg, bits) ==
            LET intEnd == DigitsEnd(u, 1)
                fracEnd == IF intEnd <= Len(u) /\ u[intEnd] = "." THEN DigitsEnd(u, intEnd + 1)
                           ELSE intEnd
                expStart == IF fracEnd + 1 <= Len(u) /\ u[fracEnd + 1] \in {"+", "-"}
                            THEN fracEnd + 2 ELSE fracEnd + 1
            IN  IF u = <<"I", "n", "f", "i", "n", "i", "t", "y">> THEN JInf(neg)
                ELSE IF bits > 0
                        /\ ~(Len(u) > 2 /\ \A i \in 3..Len(u) :
                                               IsHex(u[i]) /\ HexValue(u[i]) < 2 ^ bits)
                THEN NaN
                ELSE IF bits = 0 /\ fracEnd = (IF intEnd <= Len(u) /\ u[intEnd] = "." THEN 2 ELSE 1)
                THEN NaN
                ELSE IF bits = 0 /\ fracEnd <= Len(u)
                        /\ (u[fracEnd] \notin {"e", "E"} \/ expStart > Len(u)
                               \/ DigitsEnd(u, expStart) # Len(u) + 1)
                THEN NaN
                ELSE NumberOf(neg,
                              IF bits > 0
                              THEN RadixValue(SubSeq(u, 3, Len(u)), bits, Decimal(<<>>, 0))
                              ELSE DecimalOf(SubSeq(u, 1, intEnd - 1)
                                                 \o SubSeq(u, intEnd + 1, fracEnd - 1),
                                             (intEnd - 1)
                                                 + (IF fracEnd > Len(u) THEN 0
                                                    ELSE (IF u[expStart - 1] = "-" THEN -1 ELSE 1)
                                                             * ExponentDigits(u, expStart,
                                                                              Len(u) + 1))))
        Signed(t, signed) ==
            Literal(IF signed THEN Tail(t) ELSE t, t[1] = "-",
                    IF signed \/ Len(t) < 2 \/ t[1] # "0" THEN 0
                    ELSE IF t[2] \in {"x", "X"} THEN 4
                    ELSE IF t[2] \in {"o", "O"} THEN 3
                    ELSE IF t[2] \in {"b", "B"} THEN 1
                    ELSE 0)
        Trimmed(t) == IF Len(t) = 0 THEN JNum(0) ELSE Signed(t, t[1] \in {"+", "-"})
    IN  Trimmed(trim(s))

\* a column as the diagnostic shows it
Column(x) == IF IsSmallInteger(x) THEN x.n ELSE IF IsNaN(x) THEN "NaN" ELSE x

\* the callback of diagnosticsData.map: kind is "threw", "null" (the finding is
\* dropped) or "diagnostic".  The sum at the end index throws for a length that
\* has no text, new Position throws for a negative character, and new Range
\* puts the position that is not before the other one last: ordered is
\* start.isBefore(end), startIndex < endIndex with a string read as a number.
\* convertSeverity is an argument of new Diagnostic and runs first; the
\* constructor then throws TypeError('message must be set') for a message that
\* is not truthy.
MapItem(doc, item) ==
    LET lineNumber == Get(item, K.lineNumber)
        problematicText == Get(item, K.problematicText)
        fix == Get(item, K.fix)
        Diagnostic(startIndex, endIndex, ordered, sev) ==
            IF sev.threw THEN [kind |-> "threw"]
            ELSE IF ~Truthy(Get(item, K.message)) THEN [kind |-> "threw"]
            ELSE [kind |-> "diagnostic",
                  diagnostic |->
                      [line |-> lineNumber.n,
                       startColumn |-> IF ordered THEN startIndex ELSE Column(endIndex),
                       endColumn |-> IF ordered THEN Column(endIndex) ELSE startIndex,
                       message |-> Get(item, K.message),
                       severity |-> sev.severity,
                       data |-> IF Truthy(fix)
                                THEN [fix |-> [title |-> Get(fix, K.title),
                                               edits |-> Get(fix, K.replacement)]]
                                ELSE Undefined]]
        Ranged(startIndex, endIndex) ==
            IF endIndex.t = "number" /\ CompareToInteger(endIndex, 0) = -1
            THEN [kind |-> "threw"]
            ELSE Diagnostic(startIndex, endIndex,
                            CompareToInteger(IF endIndex.t = "string"
                                             THEN StringToNumber(endIndex.s)
                                             ELSE endIndex,
                                             startIndex) = 1,
                            convertSeverity(Get(item, K.severity)))
        Found(startIndex) ==
            IF NotFound(startIndex) THEN [kind |-> "null"]
            ELSE IF problematicText.t \in {"undefined", "null"} THEN [kind |-> "threw"]
            ELSE IF ToStringThrows(LengthOf(problematicText)) THEN [kind |-> "threw"]
            ELSE Ranged(startIndex, EndIndex(startIndex, problematicText))
    IN  IF item.t \in {"null", "undefined"} THEN [kind |-> "threw"]
        ELSE IF ~LineExists(doc, lineNumber) THEN [kind |-> "threw"]
        ELSE IF ToStringThrows(problematicText) THEN [kind |-> "threw"]
        ELSE Found(indexOf(lineAt(doc, lineNumber.n), SearchString(problematicText)))

RECURSIVE KeptDiagnostics(_)
\* .filter(diagnostic => diagnostic !== null)
KeptDiagnostics(results) ==
    IF Len(results) = 0 THEN <<>>
    ELSE (IF Head(results).kind = "diagnostic" THEN <<Head(results).diagnostic>> ELSE <<>>)
             \o KeptDiagnostics(Tail(results))

\* applyDiagnostics with a finding that fails dropped instead of failing the batch
applyDiagnosticsDropsFailed(doc, diagnosticsData) ==
    IF diagnosticsData.t # "array" THEN [threw |-> TRUE, diagnostics |-> <<>>]
    ELSE [threw |-> FALSE,
          diagnostics |-> KeptDiagnostics([i \in 1..Len(diagnosticsData.a) |->
                                               MapItem(doc, diagnosticsData.a[i])])]

\* [threw, diagnostics]: what applyDiagnostics hands to diagnosticCollection.set,
\* or threw where it throws before the call (lineAt, a TypeError, data not an array)
applyDiagnostics(doc, diagnosticsData) ==
    IF diagnosticsData.t # "array" THEN [threw |-> TRUE, diagnostics |-> <<>>]
    ELSE LET Mapped(results) ==
                 IF \E i \in 1..Len(results) : results[i].kind = "threw"
                 THEN [threw |-> TRUE, diagnostics |-> <<>>]
                 ELSE [threw |-> FALSE, diagnostics |-> KeptDiagnostics(results)]
         IN  Mapped([i \in 1..Len(diagnosticsData.a) |-> MapItem(doc, diagnosticsData.a[i])])

(***************************************************************************)
(* The conversation loop                                                   *)
(***************************************************************************)

\* tool_calls of an assistant message: undefined, or an array of requests
NoToolCalls == Undefined
ToolCalls(calls) == JArr(calls)
ToolCall(id, name, arguments) == [id |-> id, name |-> name, arguments |-> arguments]

SystemTurn(text) == [role |-> "system", content |-> StringContent(text)]
UserTurn(text) == [role |-> "user", content |-> StringContent(text)]
AssistantTurn(content, toolCalls) ==
    [role |-> "assistant", content |-> content, tool_calls |-> toolCalls]
ToolTurn(id, text) ==
    [role |-> "tool", tool_call_id |-> id, content |-> StringContent(text)]

\* the fixed instruction text: the String.raw template, line by line
getSystemPrompt ==
    <<"\n">>
        \o <<" ", " ", " ", " ", "Y", "o", "u", " ", "a", "r", "e", " ", "a", " ", "c", "o", "d", "e", " ", "l", "i", "n", "t", "e", "r", ".", " ", "Y", "o", "u", " ", "u", "n", "d", "e", "r", "s", "t", "a", "n", "d", " ", "c", "o", "d", "e", " ", "w", "r", "i", "t", "t", "e", "n", " ", "i", "n", " ", "m", "a", "n", "y", " ", "d", "i", "f", "f", "e", "r", "e", "n", "t", " ", "p", "r", "o", "g", "r", "a", "m", "m", "i", "n", "g", " ", "l", "a", "n", "g", "u", "a", "g", "e", "s", ".", "\n">>
        \o <<"\n">>
        \o <<" ", " ", " ", " ", "I", "M", "P", "O", "R", "T", "A", "N", "T", ":", " ", "W", "h", "e", "n", " ", "r", "e", "p", "o", "r", "t", "i", "n", "g", " ", "d", "i", "a", "g", "n", "o", "s", "t", "i", "c", " ", "r", "a", "n", "g", "e", "s", ",", " ", "u", "s", "e", " ", "0", "-", "b", "a", "s", "e", "d", " ", "l", "i", "n", "e", " ", "p", "o", "s", "i", "t", "i", "o", "n", "s", ".", "\n">>
        \o <<" ", " ", " ", " ", "\n">>
        \o <<" ", " ", " ", " ", "T", "h", "e", " ", "c", "o", "d", "e", " ", "w", "i", "l", "l", " ", "b", "e", " ", "p", "r", "o", "v", "i", "d", "e", "d", " ", "w", "i", "t", "h", " ", "l", "i", "n", "e", " ", "n", "u", "m", "b", "e", "r", "s", " ", "p", "r", "e", "f", "i", "x", "e", "d", " ", "t", "o", " ", "h", "e", "l", "p", " ", "y", "o", "u", " ", "a", "c", "c", "u", "r", "a", "t", "e", "l", "y", " ", "r", "e", "p", "o", "r", "t", " ", "p", "o", "s", "i", "t", "i", "o", "n", "s", ".", "\n">>
        \o <<" ", " ", " ", " ", "F", "o", "r", " ", "e", "x", "a", "m", "p", "l", "e", ",", " ", "i", "f", " ", "y", "o", "u", " ", "s", "e", "e", ":", "\n">>
        \o <<" ", " ", " ", " ", "0", ":", " ", "f", "u", "n", "c", "t", "i", "o", "n", " ", "h", "e", "l", "l", "o", "(", ")", " ", "{", "\n">>
        \o <<" ", " ", " ", " ", "1", ":", " ", " ", " ", "c", "o", "n", "s", "o", "l", "e", ".", "l", "o", "g", "(", "\"", "w", "o", "r", "l", "d", "\"", ")", "\n">>
        \o <<" ", " ", " ", " ", "2", ":", " ", "}", "\n">>
        \o <<"\n">>
        \o <<" ", " ", " ", " ", "Y", "o", "u", " ", "c", "a", "n", " ", "r", "e", "q", "u", "e", "s", "t", " ", "t", "o", " ", "r", "e", "a", "d", " ", "a", "d", "d", "i", "t", "i", "o", "n", "a", "l", " ", "f", "i", "l", "e", "s", " ", "f", "o", "r", " ", "c", "o", "n", "t", "e", "x", "t", " ", "u", "s", "i", "n", "g", " ", "t", "h", "e", " ", "r", "e", "a", "d", "_", "f", "i", "l", "e", " ", "f", "u", "n", "c", "t", "i", "o", "n", ".", " ", "T", "h", "i", "s", " ", "m", "i", "g", "h", "t", "\n">>
        \o <<" ", " ", " ", " ", "b", "e", " ", "u", "s", "e", "f", "u", "l", " ", "f", "o", "r", " ", "r", "e", "a", "d", "i", "n", "g", " ", "a", "d", "d", "i", "t", "i", "o", "n", "a", "l", " ", "i", "n", "c", "l", "u", "d", "e", "d", " ", "o", "r", " ", "s", "o", "u", "r", "c", "e", "d", " ", "f", "i", "l", "e", "s", ".", "\n">>
        \o <<"\n">>
        \o <<" ", " ", " ", " ", "Y", "o", "u", " ", "m", "a", "y", " ", "r", "e", "t", "u", "r", "n", " ", "m", "u", "l", "t", "i", "p", "l", "e", " ", "u", "n", "r", "e", "l", "a", "t", "e", "d", " ", "l", "i", "n", "t", "i", "n", "g", " ", "p", "r", "o", "b", "l", "e", "m", "s", " ", "i", "n", " ", "t", "h", "e", " ", "s", "a", "m", "e", " ", "r", "e", "s", "p", "o", "n", "s", "e", ".", "\n">>
        \o <<"\n">>
        \o <<" ", " ", " ", " ", "A", "n", "a", "l", "y", "z", "e", " ", "t", "h", "e", " ", "g", "i", "v", "e", "n", " ", "c", "o", "d", "e", " ", "a", "n", "d", " ", "r", "e", "t", "u", "r", "n", " ", "a", " ", "J", "S", "O", "N", " ", "a", "r", "r", "a", "y", " ", "o", "f", " ", "d", "i", "a", "g", "n", "o", "s", "t", "i", "c", "s", ".", " ", "E", "a", "c", "h", " ", "d", "i", "a", "g", "n", "o", "s", "t", "i", "c", " ", "s", "h", "o", "u", "l", "d", " ", "h", "a", "v", "e", ":", "\n">>
        \o <<" ", " ", " ", " ", "-", " ", "l", "i", "n", "e", "N", "u", "m", "b", "e", "r", " ", "(", "0", "-", "b", "a", "s", "e", "d", " ", "l", "i", "n", "e", " ", "n", "u", "m", "b", "e", "r", " ", "w", "h", "e", "r", "e", " ", "t", "h", "e", " ", "i", "s", "s", "u", "e", " ", "o", "c", "c", "u", "r", "s", ")", "\n">>
        \o <<" ", " ", " ", " ", "-", " ", "p", "r", "o", "b", "l", "e", "m", "a", "t", "i", "c", "T", "e", "x", "t", " ", "(", "t", "h", "e", " ", "e", "x", "a", "c", "t", " ", "s", "u", "b", "s", "t", "r", "i", "n", "g", " ", "t", "h", "a", "t", " ", "i", "s", " ", "p", "r", "o", "b", "l", "e", "m", "a", "t", "i", "c", ")", "\n">>
        \o <<" ", " ", " ", " ", "-", " ", "m", "e", "s", "s", "a", "g", "e", " ", "(", "d", "e", "s", "c", "r", "i", "p", "t", "i", "o", "n", " ", "o", "f", " ", "t", "h", "e", " ", "i", "s", "s", "u", "e", ")", "\n">>
        \o <<" ", " ", " ", " ", "-", " ", "s", "e", "v", "e", "r", "i", "t", "y", " ", "(", "e", "r", "r", "o", "r", ",", " ", "w", "a", "r", "n", "i", "n", "g", ",", " ", "i", "n", "f", "o", "r", "m", "a", "t", "i", "o", "n", ",", " ", "o", "r", " ", "h", "i", "n", "t", ")", "\n">>
        \o <<" ", " ", " ", " ", "-", " ", "f", "i", "x", " ", "(", "o", "p", "t", "i", "o", "n", "a", "l", ")", " ", "c", "o", "n", "t", "a", "i", "n", "i", "n", "g", ":", "\n">>
        \o <<" ", " ", " ", " ", " ", " ", "-", " ", "t", "i", "t", "l", "e", " ", "(", "s", "h", "o", "r", "t", " ", "d", "e", "s", "c", "r", "i", "p", "t", "i", "o", "n", " ", "o", "f", " ", "t", "h", "e", " ", "f", "i", "x", ")", "\n">>
        \o <<" ", " ", " ", " ", " ", " ", "-", " ", "r", "e", "p", "l", "a", "c", "e", "m", "e", "n", "t", " ", "(", "t", "h", "e", " ", "t", "e", "x", "t", " ", "t", "o", " ", "r", "e", "p", "l", "a", "c", "e", " ", "t", "h", "e", " ", "p", "r", "o", "b", "l", "e", "m", "a", "t", "i", "c", " ", "s", "u", "b", "s", "t", "r", "i", "n", "g", " ", "w", "i", "t", "h", ")", "\n">>
        \o <<" ", " ", " ", " ", "\n">>
        \o <<" ", " ", " ", " ", "I", "f", " ", "t", "h", "e", "r", "e", " ", "a", "r", "e", " ", "n", "o", " ", "p", "r", "o", "b", "l", "e", "m", "s", " ", "i", "n", " ", "t", "h", "e", " ", "g", "i", "v", "e", "n", " ", "c", "o", "d", "e", ",", " ", "j", "u", "s", "t", " ", "r", "e", "t", "u", "r", "n", " ", "a", "n", " ", "e", "m", "p", "t", "y", " ", "J", "S", "O", "N", " ", "a", "r", "r", "a", "y", ".", "\n">>
        \o <<"\n">>
        \o <<" ", " ", " ", " ", "I", "M", "P", "O", "R", "T", "A", "N", "T", ":", " ", "R", "e", "s", "p", "o", "n", "d", " ", "O", "N", "L", "Y", " ", "w", "i", "t", "h", " ", "t", "h", "e", " ", "J", "S", "O", "N", " ", "a", "r", "r", "a", "y", ",", " ", "w", "i", "t", "h", "o", "u", "t", " ", "a", "n", "y", " ", "a", "d", "d", "i", "t", "i", "o", "n", "a", "l", " ", "t", "e", "x", "t", " ", "o", "r", " ", "f", "o", "r", "m", "a", "t", "t", "i", "n", "g", ".", "\n">>
        \o <<" ", " ">>

\* the pieces of document.getText() between line feeds, each prefixed with its
\* 0-based index, a colon and a space, joined by line feeds
getLineHints(doc) ==
    LET lines == split(getText(doc), "\n")
    IN  Join([i \in 1..Len(lines) |-> NumberToString(i - 1) \o <<":", " ">> \o lines[i]],
             <<"\n">>)

InitialMessages(fileName, lineHints) ==
    << SystemTurn(getSystemPrompt),
       UserTurn(<<"F", "i", "l", "e", "n", "a", "m", "e", ":", " ">> \o fileName \o <<"\n", "\n", "C", "o", "n", "t", "e", "n", "t", ":", "\n">> \o lineHints) >>

ReadFileName == <<"r", "e", "a", "d", "_", "f", "i", "l", "e">>

\* Destructure with a SyntaxError read as an empty path instead of thrown
DestructureLenient(parsed) ==
    IF ~parsed.ok THEN [threw |-> FALSE, filePath |-> JStr(<<>>)]
    ELSE IF parsed.v.t = "null" THEN [threw |-> TRUE, filePath |-> Undefined]
    ELSE [threw |-> FALSE, filePath |-> Get(parsed.v, K.filePath)]

\* DecodeArguments with arguments that are not JSON read as an empty path
\* instead of throwing
DecodeArgumentsLenient(arguments) == DestructureLenient(JSONparse(arguments))

\* const { filePath } = parsed: threw on a SyntaxError and on destructuring null
Destructure(parsed) ==
    IF ~parsed.ok \/ parsed.v.t = "null"
    THEN [threw |-> TRUE, filePath |-> Undefined]
    ELSE [threw |-> FALSE, filePath |-> Get(parsed.v, K.filePath)]

\* const { filePath } = JSON.parse(toolCall.function.arguments): [threw, filePath]
DecodeArguments(arguments) == Destructure(JSONparse(arguments))

\* path.join(currentDir, filePath) throws a TypeError unless filePath is a string;
\* it is called before readFile's try block
PathJoinThrows(filePath) == filePath.t # "string"

\* whether the callback of toolCalls.map rejects before any file is read: the
\* destructuring of the decoded request throws, or path.join
RequestRejects(toolCall) ==
    /\ toolCall.name = ReadFileName
    /\ LET Rejects(decoded) == decoded.threw \/ PathJoinThrows(decoded.filePath)
       IN  Rejects(DecodeArguments(toolCall.arguments))

\* whether the callback hands a read to the file system
RequestReads(toolCall) == toolCall.name = ReadFileName /\ ~RequestRejects(toolCall)

\* responseContent of handleReadFileTool; fileContent is JNull where readFile
\* caught the file system's error
responseContent(currentFileName, filePath, fileContent) ==
    IF fileContent.t # "null"
    THEN <<"\n", "C", "u", "r", "r", "e", "n", "t", " ", "f", "i", "l", "e", " ", "b", "e", "i", "n", "g", " ", "l", "i", "n", "t", "e", "d", ":", " ">> \o currentFileName
             \o <<"\n", "R", "e", "q", "u", "e", "s", "t", "e", "d", " ", "f", "i", "l", "e", ":", " ">> \o filePath
             \o <<"\n", "C", "o", "n", "t", "e", "n", "t", " ", "o", "f", " ">> \o filePath \o <<":", "\n", "\n">>
             \o fileContent.s \o <<"\n">>
    ELSE <<"\n", "C", "u", "r", "r", "e", "n", "t", " ", "f", "i", "l", "e", " ", "b", "e", "i", "n", "g", " ", "l", "i", "n", "t", "e", "d", ":", " ">> \o currentFileName
             \o <<"\n", "R", "e", "q", "u", "e", "s", "t", "e", "d", " ", "f", "i", "l", "e", ":", " ">> \o filePath
             \o <<"\n", "\n", "T", "h", "e", " ", "f", "i", "l", "e", " ", "\"">> \o filePath
             \o <<"\"", " ", "c", "o", "u", "l", "d", " ", "n", "o", "t", " ", "b", "e", " ", "r", "e", "a", "d", ".", " ", "I", "t", " ", "m", "a", "y", " ", "n", "o", "t", " ", "e", "x", "i", "s", "t", " ", "o", "r", " ", "m", "a", "y", " ", "n", "o", "t", " ", "b", "e", " ", "a", "c", "c", "e", "s", "s", "i", "b", "l", "e", ".", "\n">>

\* the tool message of a read_file request
handleReadFileTool(toolCall, currentFileName, fileContent) ==
    ToolTurn(toolCall.id,
             trim(responseContent(currentFileName,
                                  DecodeArguments(toolCall.arguments).filePath.s,
                                  fileContent)))

\* the tool message the callback of toolCalls.map resolves to
ToolResponse(toolCall, fileName, fileContent) ==
    IF toolCall.name = ReadFileName
    THEN handleReadFileTool(toolCall, fileName, fileContent)
    ELSE ToolTurn(toolCall.id, <<"E", "r", "r", "o", "r", ":", " ", "U", "n", "k", "n", "o", "w", "n", " ", "t", "o", "o", "l", " ">> \o toolCall.name)

\* handleToolCalls with the last request left unanswered
handleToolCallsSkipsLast(toolCalls, fileName, fileContents) ==
    LET kept == IF Len(toolCalls) = 0 THEN 0 ELSE Len(toolCalls) - 1
    IN  [i \in 1..kept |-> ToolResponse(toolCalls[i], fileName, fileContents[i])]

\* Promise.all keeps the order of toolCalls
handleToolCalls(toolCalls, fileName, fileContents) ==
    [i \in 1..Len(toolCalls) |-> ToolResponse(toolCalls[i], fileName, fileContents[i])]

\* LoopContinues with the length test off by one
LoopContinuesOffByOne(toolCalls) == Truthy(toolCalls) /\ Len(toolCalls.a) > 1

\* while (toolCalls && toolCalls.length > 0)
LoopContinues(toolCalls) == Truthy(toolCalls) /\ Len(toolCalls.a) > 0

CountReads(toolCalls) == Cardinality({i \in 1..Len(toolCalls) : RequestReads(toolCalls[i])})

(***************************************************************************)
(* Bounded inputs                                                          *)
(***************************************************************************)

\* the chat.completions.create calls of one invocation whose settling is
\* followed: each of them may be answered with tool calls, and the call issued
\* after the last of them stays in flight.  The loop itself counts nothing.
MaxModelCalls == 3
\* findings in one batch handed to the mapper or the parser alone
MaxFindings == 2

fileName == <<"/", "w", "/", "m", "a", "i", "n", ".", "j", "s">>

DocOriginal ==
    TextDocument(<< <<"f", "o", "o", "(", ")", " ", "{">>,
                    <<" ", " ", "b", "a", "r", "(", "b", "a", "z", ")">>,
                    <<"}">> >>,
                 <<"\n">>)
\* the same text after a line was inserted above line 1, saved with CRLF line ends
DocEdited ==
    TextDocument(<< <<"f", "o", "o", "(", ")", " ", "{">>,
                    <<Grave, Grave, Grave, "5">>,
                    <<" ", " ", "b", "a", "r", "(", "b", "a", "z", ")">>,
                    <<"}">> >>,
                 <<"\r", "\n">>)
Docs == {DocOriginal, DocEdited}

Prop(key, val) == [k |-> key, v |-> val]
Finding(lineNumber, problematicText, message, severity) ==
    JObj(<< Prop(K.lineNumber, JNum(lineNumber)),
            Prop(K.problematicText, JStr(problematicText)),
            Prop(K.message, JStr(message)),
            Prop(K.severity, JStr(severity)) >>)

\* the findings a model answers with
FindingNamed ==
    [Bar |->
         Finding(1, <<"b", "a", "r", "(", "b", "a", "z", ")">>, <<"a", "v", "o", "i", "d", " ", "b", "a", "r">>, <<"w", "a", "r", "n", "i", "n", "g">>),
     Qux |->
         Finding(1, <<"q", "u", "x">>, <<"n", "o", " ", "q", "u", "x">>, <<"e", "r", "r", "o", "r">>),
     Foo |->
         JObj(<< Prop(K.lineNumber, JNum(0)),
                 Prop(K.problematicText, JStr(<<"f", "o", "o">>)),
                 Prop(K.message, JStr(<<"r", "e", "n", "a", "m", "e">>)),
                 Prop(K.severity, JStr(<<"H", "I", "N", "T">>)),
                 Prop(K.fix, JObj(<< Prop(K.title, JStr(<<"R", "e", "n", "a", "m", "e">>)),
                                     Prop(K.replacement, JStr(<<"f">>)) >>)) >>),
     NoSeverity |->
         JObj(<< Prop(K.lineNumber, JNum(0)),
                 Prop(K.problematicText, JStr(<<"{">>)),
                 Prop(K.message, JStr(<<"b", "r", "a", "c", "e">>)) >>),
     FarLine |->
         Finding(7, <<"}">>, <<"f", "a", "r">>, <<"i", "n", "f", "o", "r", "m", "a", "t", "i", "o", "n">>),
     EmptyText |->
         Finding(2, <<>>, <<"e", "m", "p", "t", "y">>, <<"f", "a", "t", "a", "l">>),
     Fence |->
         Finding(1, <<Grave, Grave, Grave>>, <<"f", "e", "n", "c", "e">>, <<"w", "a", "r", "n", "i", "n", "g">>),
    \* the text occurs twice on line 1, at columns 2 and 6
     Twice |->
         Finding(1, <<"b", "a">>, <<"t", "w", "i", "c", "e">>, <<"e", "r", "r", "o", "r">>),
     Quote |->
         Finding(0, <<"(", ")", " ", "{">>, <<"s", "a", "y", " ", "\"", "n", "o", "\"", "\n">>, <<"E", "r", "r", "o", "r">>),
    \* a problematicText that is a number, not a string; its message holds a form
    \* feed and a vertical tab
     NumberText |->
         JObj(<< Prop(K.lineNumber, JNum(1)),
                 Prop(K.problematicText, JNum(5)),
                 Prop(K.message, JStr(<<"f", "i", "v", "e", "\f", VerticalTab>>)),
                 Prop(K.severity, JStr(<<"e", "r", "r", "o", "r">>)) >>),
    \* a lineNumber that is not an integer: 1.5
     HalfLine |->
         JObj(<< Prop(K.lineNumber, JDec(FALSE, <<"1", "5">>, 1)),
                 Prop(K.problematicText, JStr(<<"b", "a", "r">>)),
                 Prop(K.message, JStr(<<"h", "a", "l", "f">>)),
                 Prop(K.severity, JStr(<<"h", "i", "n", "t">>)) >>),
    \* a finding whose text is on its line and whose message is the empty string
     NoMessage |->
         Finding(0, <<"f", "o", "o">>, <<>>, <<"w", "a", "r", "n", "i", "n", "g">>)]

Findings == {FindingNamed.Bar, FindingNamed.Qux, FindingNamed.Foo, FindingNamed.NoSeverity, FindingNamed.FarLine,
             FindingNamed.EmptyText, FindingNamed.Fence, FindingNamed.Quote, FindingNamed.Twice,
             FindingNamed.NumberText, FindingNamed.HalfLine, FindingNamed.NoMessage}

FindingSeqs == UNION {[1..m -> Findings] : m \in 0..MaxFindings}

\* the answer wrapped in code-fence markup
Fenced(text) == <<Grave, Grave, Grave, "j", "s", "o", "n", "\n">> \o text \o <<"\n", Grave, Grave, Grave>>

AnswerContents ==
    { StringContent(Stringify(JArr(<<>>))),
      StringContent(Fenced(Stringify(JArr(<<FindingNamed.Bar>>)))),
      StringContent(Stringify(JArr(<<FindingNamed.Qux, FindingNamed.Foo>>))),
      StringContent(Stringify(JArr(<<FindingNamed.Bar, FindingNamed.NoSeverity>>))),
      StringContent(Stringify(JArr(<<FindingNamed.Foo, FindingNamed.FarLine>>))),
      StringContent(Stringify(JObj(<<>>))),
      StringContent(<<"N", "o", " ", "p", "r", "o", "b", "l", "e", "m", "s", " ", "f", "o", "u", "n", "d", ".">>),
      PartsContent(<< [type |-> "text", text |-> <<" ", "\f", "[">>],
                      [type |-> "refusal", text |-> <<"n", "o">>],
                      [type |-> "text", text |-> <<"]", "\n">>] >>),
      NullContent }

\* a request to read helper.js
ReadHelper(id) ==
    ToolCall(id, ReadFileName,
             Stringify(JObj(<<Prop(K.filePath,
                                   JStr(<<"h", "e", "l", "p", "e", "r", ".", "j", "s">>))>>)))
UnknownTool(id) == ToolCall(id, <<"w", "r", "i", "t", "e", "_", "f", "i", "l", "e">>, <<"{", "}">>)
\* arguments cut short: not JSON
Undecodable(id) == ToolCall(id, ReadFileName, <<"{", "\"", "f", "i", "l", "e", "P", "a", "t", "h", "\"", ":">>)
\* arguments that decode to an object with no filePath
NoFilePath(id) == ToolCall(id, ReadFileName, <<"{", "}">>)

ToolCallLists ==
    { <<>>,
      <<ReadHelper("call_1")>>,
      <<UnknownTool("call_1")>>,
      <<Undecodable("call_1")>>,
      <<NoFilePath("call_1")>>,
      <<UnknownTool("call_1"), ReadHelper("call_2")>>,
      <<ReadHelper("call_1"), Undecodable("call_2")>>,
      <<UnknownTool("call_1"), NoFilePath("call_2")>> }

\* what vscode.workspace.fs.readFile gives readFile: content, or an error (JNull)
FileContents == {JNull, JStr(<<"b", "a", "r", " ", "=", " ", "1", "\n">>)}

\* the assistant messages the model may return: final answers, and turns that
\* carry tool calls
Responses ==
    {AssistantTurn(c, NoToolCalls) : c \in AnswerContents}
        \cup {AssistantTurn(NullContent, ToolCalls(calls)) : calls \in ToolCallLists}
        \cup {AssistantTurn(StringContent(<<"[", "]">>), ToolCalls(<<>>))}

(***************************************************************************)
(* The lint invocation                                                     *)
(***************************************************************************)

\* Fail with the document's diagnostics cleared on the way out
FailClearsDiagnostics(cause, msgs) ==
    /\ pc' = "idle"
    /\ messages' = msgs
    /\ outcome' = cause
    /\ errorMessages' = errorMessages + 1
    /\ diagnosticCollection' = <<>>
    /\ UNCHANGED <<setCalls, modelCalls>>

\* the catch block of lintDocument: handleLintingError logs the error and shows
\* one notice; nothing is written to the diagnostic collection
Fail(cause, msgs) ==
    /\ pc' = "idle"
    /\ messages' = msgs
    /\ outcome' = cause
    /\ errorMessages' = errorMessages + 1
    /\ UNCHANGED <<diagnosticCollection, setCalls, modelCalls>>

\* Return with the new diagnostics added to those the document already has
ReturnKeepsEarlier(msgs) ==
    LET Applied(applied) ==
            IF applied.threw THEN Fail("error:map", msgs)
            ELSE /\ pc' = "idle"
                 /\ messages' = msgs
                 /\ outcome' = "applied"
                 /\ diagnosticCollection' = diagnosticCollection \o applied.diagnostics
                 /\ setCalls' = setCalls + 1
                 /\ UNCHANGED <<errorMessages, modelCalls>>
        Parsed(parsed) ==
            IF parsed.threw THEN Fail("error:parse", msgs)
            ELSE Applied(applyDiagnostics(document, parsed.value))
        Final(final) ==
            IF final.threw THEN Fail("error:final", msgs)
            ELSE Parsed(parseLintingResponse(final.text))
    IN  Final(extractFinalResponse(msgs))

\* conductConversationWithLLM returns msgs: the final text is extracted, parsed
\* and mapped onto the live document, all before the next event
Return(msgs) ==
    LET Applied(applied) ==
            IF applied.threw THEN Fail("error:map", msgs)
            ELSE /\ pc' = "idle"
                 /\ messages' = msgs
                 /\ outcome' = "applied"
                 /\ diagnosticCollection' = applied.diagnostics
                 /\ setCalls' = setCalls + 1
                 /\ UNCHANGED <<errorMessages, modelCalls>>
        Parsed(parsed) ==
            IF parsed.threw THEN Fail("error:parse", msgs)
            ELSE Applied(applyDiagnostics(document, parsed.value))
        Final(final) ==
            IF final.threw THEN Fail("error:final", msgs)
            ELSE Parsed(parseLintingResponse(final.text))
    IN  Final(extractFinalResponse(msgs))

\* NextIteration with the transcript started afresh for the new call
NextIterationDropsHistory(msgs) ==
    IF openai
    THEN /\ pc' = "awaitModel"
         /\ messages' = SubSeq(msgs, 3, Len(msgs))
         /\ modelCalls' = modelCalls + 1
         /\ UNCHANGED <<outcome, errorMessages, diagnosticCollection, setCalls>>
    ELSE Fail("error:client", msgs)

\* NextIteration with a ceiling on the number of calls
NextIterationWithCeiling(msgs) ==
    IF modelCalls >= 2 THEN Fail("error:loop", msgs)
    ELSE IF openai
    THEN /\ pc' = "awaitModel"
         /\ messages' = msgs
         /\ modelCalls' = modelCalls + 1
         /\ UNCHANGED <<outcome, errorMessages, diagnosticCollection, setCalls>>
    ELSE Fail("error:client", msgs)

\* the top of the do-while body: openai!.chat.completions.create(...) is a
\* TypeError when the handle was cleared meanwhile
NextIteration(msgs) ==
    IF openai
    THEN /\ pc' = "awaitModel"
         /\ messages' = msgs
         /\ modelCalls' = modelCalls + 1
         /\ UNCHANGED <<outcome, errorMessages, diagnosticCollection, setCalls>>
    ELSE Fail("error:client", msgs)

\* the loop test after the tool messages, if any, were pushed
AfterToolCalls(msgs, toolCalls) ==
    IF LoopContinues(toolCalls) THEN NextIteration(msgs) ELSE Return(msgs)

\* lintDocument up to its first await
LintDocument ==
    /\ pc = "idle"
    /\ modelFailures' = 0
    /\ toolResolutions' = 0
    /\ fileReads' = 0
    /\ readResults' = <<>>
    /\ setCalls' = 0
    /\ \/ /\ openai
          /\ pc' = "awaitModel"
          /\ messages' = InitialMessages(fileName, getLineHints(document))
          /\ modelCalls' = 1
          /\ outcome' = "running"
          /\ errorMessages' = 0
       \/ /\ ~openai
          /\ pc' = "idle"
          /\ messages' = <<>>
          /\ modelCalls' = 0
          /\ outcome' = "error:client"
          /\ errorMessages' = 1
    /\ UNCHANGED <<openai, diagnosticCollection, document, fnIn, fnOut, other>>

\* ModelCallFails with the call issued again instead of the error propagating
ModelCallFailsRetried ==
    /\ pc = "awaitModel"
    /\ modelFailures' = modelFailures + 1
    /\ modelCalls' = modelCalls + 1
    /\ UNCHANGED <<openai, diagnosticCollection, document, pc, messages, toolResolutions,
                   fileReads, readResults, setCalls, errorMessages, outcome, fnIn, fnOut, other>>

\* the awaited chat.completions.create call rejects
ModelCallFails ==
    /\ pc = "awaitModel"
    /\ modelCalls <= MaxModelCalls
    /\ modelFailures' = modelFailures + 1
    /\ Fail("error:model", messages)
    /\ UNCHANGED <<openai, document, toolResolutions, fileReads, readResults, fnIn, fnOut, other>>

\* the awaited call resolves with an assistant message
ModelReturns ==
    /\ pc = "awaitModel"
    /\ modelCalls <= MaxModelCalls
    /\ \E resp \in Responses :
          /\ LET msgs == Append(messages, resp)
                 toolCalls == resp.tool_calls
             IN  IF ~Truthy(toolCalls)
                 THEN /\ AfterToolCalls(msgs, toolCalls)
                      /\ UNCHANGED <<toolResolutions, fileReads, readResults>>
                 ELSE /\ toolResolutions' = toolResolutions + Len(toolCalls.a)
                      /\ fileReads' = fileReads + CountReads(toolCalls.a)
                      /\ IF \E i \in 1..Len(toolCalls.a) : RequestRejects(toolCalls.a[i])
                         THEN Fail("error:tool", msgs) /\ UNCHANGED readResults
                         ELSE IF \A i \in 1..Len(toolCalls.a) : ~RequestReads(toolCalls.a[i])
                         THEN /\ AfterToolCalls(
                                    msgs \o handleToolCalls(toolCalls.a, fileName,
                                                [i \in 1..Len(toolCalls.a) |-> JNull]),
                                    toolCalls)
                              /\ UNCHANGED readResults
                         ELSE /\ pc' = "awaitTools"
                              /\ messages' = msgs
                              /\ UNCHANGED <<readResults, modelCalls, outcome, errorMessages,
                                             diagnosticCollection, setCalls>>
    /\ UNCHANGED <<openai, document, modelFailures, fnIn, fnOut, other>>

\* the file reads of the pending tool calls settle and Promise.all resolves
ToolCallsResolve ==
    /\ pc = "awaitTools"
    /\ LET toolCalls == messages[Len(messages)].tool_calls
       IN  \E fileContents \in [1..Len(toolCalls.a) -> FileContents] :
              /\ \A i \in 1..Len(toolCalls.a) :
                    ~RequestReads(toolCalls.a[i]) => fileContents[i] = JNull
              /\ readResults' = readResults \o
                    SelectSeq([i \in 1..Len(toolCalls.a) |->
                                  [turn |-> Len(messages),
                                   index |-> i,
                                   reads |-> RequestReads(toolCalls.a[i]),
                                   found |-> fileContents[i].t # "null"]],
                              LAMBDA r : r.reads)
              /\ AfterToolCalls(
                    messages \o handleToolCalls(toolCalls.a, fileName, fileContents),
                    toolCalls)
    /\ UNCHANGED <<openai, document, modelFailures, toolResolutions, fileReads, fnIn, fnOut, other>>

\* the minty.setApiKey command with a key entered
SetApiKey ==
    /\ openai' = TRUE
    /\ UNCHANGED <<diagnosticCollection, document, pc, messages, modelCalls, modelFailures,
                   toolResolutions, fileReads, readResults, setCalls, errorMessages,
                   outcome, fnIn, fnOut, other>>

\* the minty.clearApiKey command
ClearApiKey ==
    /\ openai' = FALSE
    /\ UNCHANGED <<diagnosticCollection, document, pc, messages, modelCalls, modelFailures,
                   toolResolutions, fileReads, readResults, setCalls, errorMessages,
                   outcome, fnIn, fnOut, other>>

\* the user edits the document
EditDocument ==
    /\ document' \in Docs \ {document}
    /\ UNCHANGED <<openai, diagnosticCollection, pc, messages, modelCalls, modelFailures,
                   toolResolutions, fileReads, readResults, setCalls, errorMessages,
                   outcome, fnIn, fnOut, other>>

\* no second invocation is in flight
NoInvocation == [state |-> "none"]

Idle ==
    /\ pc = "idle"
    /\ messages = <<>>
    /\ modelCalls = 0
    /\ modelFailures = 0
    /\ toolResolutions = 0
    /\ fileReads = 0
    /\ readResults = <<>>
    /\ setCalls = 0
    /\ errorMessages = 0
    /\ outcome = "none"
    /\ diagnosticCollection = <<>>
    /\ other = NoInvocation

Init ==
    /\ openai \in BOOLEAN
    /\ document \in Docs
    /\ Idle
    /\ fnIn = <<>>
    /\ fnOut = [done |-> FALSE]

Next ==
    \/ LintDocument
    \/ ModelCallFails
    \/ ModelReturns
    \/ ToolCallsResolve
    \/ SetApiKey
    \/ ClearApiKey
    \/ EditDocument

Spec == Init /\ [][Next]_vars

\* Every awaited promise whose settling is followed settles: the model call
\* resolves or rejects, and so do the file reads.  The code sets no timeout and
\* the loop has no ceiling: a model call after the first MaxModelCalls stays in
\* flight, and nothing is required of it.  The second condition is
\* WF_vars(ToolCallsResolve) written out: ToolCallsResolve is enabled exactly
\* when pc = "awaitTools".
SpecLive ==
    /\ Init
    /\ [][Next]_vars
    /\ WF_vars(ModelCallFails \/ ModelReturns)
    /\ ([]<>(pc # "awaitTools") \/ []<><<ToolCallsResolve>>_vars)

(***************************************************************************)
(* Two invocations for one document.  The variables pc, messages, ...,     *)
(* outcome describe the invocation whose continuation runs next; the       *)
(* variable other holds the one that is suspended meanwhile, and whether   *)
(* it is the newer of the two.  The client handle, the document and the    *)
(* diagnostic collection are shared.                                       *)
(***************************************************************************)

\* the locals of the invocation that the variables describe
Running ==
    [pc |-> pc, messages |-> messages, modelCalls |-> modelCalls,
     modelFailures |-> modelFailures, toolResolutions |-> toolResolutions,
     fileReads |-> fileReads, readResults |-> readResults, setCalls |-> setCalls,
     errorMessages |-> errorMessages, outcome |-> outcome]

\* the document is saved while it is being linted: onDidSaveTextDocument calls
\* lintDocument again, and the invocation in flight stays suspended at its await
LintAgain ==
    /\ pc # "idle"
    /\ other = NoInvocation
    /\ other' = [state |-> "suspended", newer |-> FALSE, inv |-> Running]
    /\ modelFailures' = 0
    /\ toolResolutions' = 0
    /\ fileReads' = 0
    /\ readResults' = <<>>
    /\ setCalls' = 0
    /\ \/ /\ openai
          /\ pc' = "awaitModel"
          /\ messages' = InitialMessages(fileName, getLineHints(document))
          /\ modelCalls' = 1
          /\ outcome' = "running"
          /\ errorMessages' = 0
       \/ /\ ~openai
          /\ pc' = "idle"
          /\ messages' = <<>>
          /\ modelCalls' = 0
          /\ outcome' = "error:client"
          /\ errorMessages' = 1
    /\ UNCHANGED <<openai, diagnosticCollection, document, fnIn, fnOut>>

\* the promise the suspended invocation awaits settles before the one of the
\* other invocation: its continuation is the next to run
Switch ==
    /\ other # NoInvocation
    /\ other.inv.pc # "idle"
    /\ other' = [state |-> "suspended", newer |-> ~other.newer, inv |-> Running]
    /\ pc' = other.inv.pc
    /\ messages' = other.inv.messages
    /\ modelCalls' = other.inv.modelCalls
    /\ modelFailures' = other.inv.modelFailures
    /\ toolResolutions' = other.inv.toolResolutions
    /\ fileReads' = other.inv.fileReads
    /\ readResults' = other.inv.readResults
    /\ setCalls' = other.inv.setCalls
    /\ errorMessages' = other.inv.errorMessages
    /\ outcome' = other.inv.outcome
    /\ UNCHANGED <<openai, diagnosticCollection, document, fnIn, fnOut>>

\* the answers the model gives in the runs of two invocations
ResponsesTwo ==
    { AssistantTurn(StringContent(Stringify(JArr(<<>>))), NoToolCalls),
      AssistantTurn(StringContent(Fenced(Stringify(JArr(<<FindingNamed.Bar>>)))), NoToolCalls),
      AssistantTurn(NullContent, ToolCalls(<<ReadHelper("call_1")>>)) }

\* the first of the two invocations starts
LintFirst == outcome = "none" /\ other = NoInvocation /\ LintDocument

\* a model call of the invocation that runs resolves
ModelReturnsTwo ==
    /\ ModelReturns
    /\ \E p \in 1..Len(messages') :
          /\ p > Len(messages)
          /\ messages'[p].role = "assistant"
          /\ messages'[p] \in ResponsesTwo

NextTwo ==
    \/ LintFirst
    \/ LintAgain
    \/ Switch
    \/ ModelCallFails
    \/ ModelReturnsTwo
    \/ ToolCallsResolve

SpecTwo == Init /\ [][NextTwo]_vars

(***************************************************************************)
(* The mapper on its own: every batch of findings against every document   *)
(***************************************************************************)

InitMap ==
    /\ openai = FALSE
    /\ document \in Docs
    /\ Idle
    /\ fnIn \in {JArr(fs) : fs \in FindingSeqs}
    /\ fnOut = [done |-> FALSE]

\* applyDiagnostics(document, fnIn): the diagnostics it maps, which its last
\* statement hands to diagnosticCollection.set unless it threw before
MapFindings ==
    /\ ~fnOut.done
    /\ LET Applied(result) ==
               /\ fnOut' = [done |-> TRUE, result |-> result]
               /\ IF result.threw
                  THEN UNCHANGED <<diagnosticCollection, setCalls>>
                  ELSE /\ diagnosticCollection' = result.diagnostics
                       /\ setCalls' = setCalls + 1
       IN  Applied(applyDiagnostics(document, fnIn))
    /\ UNCHANGED <<openai, document, pc, messages, modelCalls, modelFailures,
                   toolResolutions, fileReads, readResults, errorMessages, outcome,
                   fnIn, other>>

NextMap == MapFindings

SpecMap == InitMap /\ [][NextMap]_vars

(***************************************************************************)
(* The parser on its own: every batch of findings, encoded, bare and fenced *)
(***************************************************************************)

InitParse ==
    /\ openai = FALSE
    /\ document = DocOriginal
    /\ Idle
    /\ fnIn \in {JArr(fs) : fs \in FindingSeqs}
    /\ fnOut = [done |-> FALSE]

ParseFindings ==
    /\ ~fnOut.done
    /\ fnOut' = [done |-> TRUE,
                 bare |-> parseLintingResponse(Stringify(fnIn)),
                 fenced |-> parseLintingResponse(Fenced(Stringify(fnIn)))]
    /\ UNCHANGED <<openai, diagnosticCollection, document, pc, messages, modelCalls,
                   modelFailures, toolResolutions, fileReads, readResults, setCalls,
                   errorMessages, outcome, fnIn, other>>

NextParse == ParseFindings

SpecParse == InitParse /\ [][NextParse]_vars


(***************************************************************************)
(* Properties                                                              *)
(***************************************************************************)

\* the outcomes with which conductConversationWithLLM has returned its transcript
LoopReturned == outcome \in {"applied", "error:final", "error:parse", "error:map"}
\* the outcomes that are fatal aborts of the invocation
FatalOutcomes == {"error:client", "error:model", "error:tool", "error:final",
                  "error:parse", "error:map"}

HasRequests(turn) ==
    turn.role = "assistant" /\ turn.tool_calls.t = "array" /\ Len(turn.tool_calls.a) > 0
\* the positions of the assistant turns among the first n turns of the transcript
AssistantTurns(n) == {p \in 1..n : messages[p].role = "assistant"}
RequestTurns == {p \in 1..Len(messages) : HasRequests(messages[p])}
RECURSIVE SumOver(_, _)
SumOver(S, f) ==
    IF S = {} THEN 0 ELSE LET x == CHOOSE x \in S : TRUE IN f[x] + SumOver(S \ {x}, f)
\* the tool-invocation requests the invocation has received
RequestsReceived ==
    SumOver(RequestTurns, [p \in RequestTurns |-> Len(messages[p].tool_calls.a)])
\* the requests of the turn at p are still being resolved
Pending(p) == p = Len(messages) /\ pc = "awaitTools"
Contains(text, phrase) == \E i \in 1..(Len(text) + 1) : IsAt(text, phrase, i)

\* C1: whenever the conversation loop has returned, the last turn of the
\* transcript is an assistant turn whose tool-call list is absent or empty.
C1_LoopReturnsOnPlainAssistantTurn ==
    LoopReturned =>
        LET last == messages[Len(messages)]
        IN  /\ last.role = "assistant"
            /\ \/ last.tool_calls = NoToolCalls
               \/ last.tool_calls.t = "array" /\ Len(last.tool_calls.a) = 0

\* the loop returned after at least one round of tool calls
C1_Witness ==
    /\ LoopReturned
    /\ \E p \in 1..Len(messages) : messages[p].role = "tool"
    /\ messages[Len(messages)].role = "assistant"

\* C2: an invocation whose model answered every call, with tool-invocation
\* requests on the first k calls, has ended after exactly k + 1 model calls and
\* one tool resolution per request received, on a plain answer.
C2_ExactlyOneMoreCallThanToolTurns ==
    (pc = "idle" /\ outcome \notin {"none", "error:client"} /\ modelFailures = 0) =>
        /\ modelCalls = Cardinality(RequestTurns) + 1
        /\ toolResolutions = RequestsReceived
        /\ ~HasRequests(messages[Len(messages)])

\* C3: the requests of every assistant turn that was handled without failing are
\* followed by exactly one tool turn each, in the order of the requests and with
\* their ids, and every tool turn answers a request of the assistant turn before it.
C3_OneToolTurnPerRequest ==
    /\ \A p \in RequestTurns :
          LET calls == messages[p].tool_calls.a
          IN  \/ Pending(p)
              \/ p = Len(messages) /\ outcome = "error:tool"
              \/ /\ p + Len(calls) <= Len(messages)
                 /\ \A i \in 1..Len(calls) :
                       /\ messages[p + i].role = "tool"
                       /\ messages[p + i].tool_call_id = calls[i].id
                 /\ p + Len(calls) < Len(messages) =>
                       messages[p + Len(calls) + 1].role # "tool"
    /\ \A q \in 1..Len(messages) :
          messages[q].role = "tool" =>
              \E p \in RequestTurns :
                  /\ p < q
                  /\ q - p <= Len(messages[p].tool_calls.a)
                  /\ messages[q].tool_call_id = messages[p].tool_calls.a[q - p].id
    /\ toolResolutions = RequestsReceived

\* two requests of one assistant turn were answered and the loop went on
C3_Witness ==
    \E p \in RequestTurns :
        /\ Len(messages[p].tool_calls.a) = 2
        /\ p + 2 <= Len(messages)
        /\ messages[p + 2].role = "tool"
        /\ messages[p + 2].tool_call_id = "call_2"
        /\ modelCalls >= 2

\* C4: a tool request that cannot be served never aborts the invocation: an
\* unknown function and an unreadable file each get a tool turn with the
\* request's id and an error body, and the loop goes on to another model call.
C4_UnservedRequestNeverAborts ==
    /\ outcome # "error:tool"
    /\ \A p \in RequestTurns :
          \A i \in 1..Len(messages[p].tool_calls.a) :
              LET call == messages[p].tool_calls.a[i]
                  unreadable == \E r \in 1..Len(readResults) :
                                    /\ readResults[r].turn = p
                                    /\ readResults[r].index = i
                                    /\ ~readResults[r].found
              IN  (~Pending(p) /\ (call.name # ReadFileName \/ unreadable)) =>
                      /\ p + i <= Len(messages)
                      /\ messages[p + i].role = "tool"
                      /\ messages[p + i].tool_call_id = call.id
                      /\ IF call.name # ReadFileName
                         THEN Contains(messages[p + i].content.text, <<"U", "n", "k", "n", "o", "w", "n", " ", "t", "o", "o", "l">>)
                         ELSE Contains(messages[p + i].content.text, <<"c", "o", "u", "l", "d", " ", "n", "o", "t", " ", "b", "e", " ", "r", "e", "a", "d">>)
                      /\ \/ modelCalls > Cardinality(AssistantTurns(p))
                         \/ outcome = "error:client"

\* C5: a step that ends the invocation in a fatal abort, and every step of an
\* invocation that ended so, leaves the document's diagnostics as they were: the
\* invocation made no set call and showed one notice.
C5_AbortWritesNoDiagnostics ==
    [][ /\ outcome' \in FatalOutcomes =>
              /\ diagnosticCollection' = diagnosticCollection
              /\ setCalls' = 0
              /\ errorMessages' = 1
              /\ pc' = "idle"
        /\ diagnosticCollection' # diagnosticCollection =>
              outcome' = "applied" /\ setCalls' = 1 ]_vars

\* an invocation aborted on unparsable text while an earlier pass's diagnostics stand
C5_Witness ==
    /\ outcome = "error:parse"
    /\ Len(diagnosticCollection) > 0
    /\ setCalls = 0
    /\ errorMessages = 1

\* C6: once a model call of the invocation has failed, the invocation is over
\* with one notice shown; no call was issued beyond the failed one (every other
\* call brought an assistant turn) and no tool resolution beyond the requests
\* received before it.
C6_ModelFailureEndsInvocation ==
    modelFailures > 0 =>
        /\ modelFailures = 1
        /\ pc = "idle"
        /\ outcome = "error:model"
        /\ errorMessages = 1
        /\ setCalls = 0
        /\ modelCalls = Cardinality(AssistantTurns(Len(messages))) + 1
        /\ toolResolutions = RequestsReceived

\* the second model call failed, after a round of tool calls
C6_Witness ==
    /\ modelFailures = 1
    /\ modelCalls = 2
    /\ toolResolutions > 0
    /\ outcome = "error:model"

\* the findings of the batch handed to the mapper, and the line each names
Items == fnIn.a
LineOf(item) == lineAt(document, Get(item, K.lineNumber).n)
OnExistingLine(item) == LineExists(document, Get(item, K.lineNumber))
HasText(item) == Get(item, K.problematicText).t = "string"
\* the text occurs verbatim on the reported line
Occurs(item) == Contains(LineOf(item), Get(item, K.problematicText).s)
Unmatched(item) == OnExistingLine(item) /\ HasText(item) /\ ~Occurs(item)
Matched(item) == OnExistingLine(item) /\ HasText(item) /\ Occurs(item)
\* the records of the batch are findings in that their problematicText is a string
TextsAreStrings == \A i \in 1..Len(Items) : HasText(Items[i])

\* C7: every diagnostic the mapper returns for a batch of findings (records
\* whose problematicText is a string) lies on a line of the document, with
\* 0 <= startColumn <= endColumn <= the length of that line.
C7_RangeWithinLine ==
    (fnOut.done /\ ~fnOut.result.threw /\ TextsAreStrings) =>
        \A k \in 1..Len(fnOut.result.diagnostics) :
            LET d == fnOut.result.diagnostics[k]
            IN  /\ d.line \in 0..(Len(document.lines) - 1)
                /\ 0 <= d.startColumn
                /\ d.startColumn <= d.endColumn
                /\ d.endColumn <= Len(lineAt(document, d.line))

\* a diagnostic that ends at the last character of its line and starts inside it
C7_Witness ==
    /\ fnOut.done
    /\ ~fnOut.result.threw
    /\ \E k \in 1..Len(fnOut.result.diagnostics) :
          LET d == fnOut.result.diagnostics[k]
          IN  d.startColumn > 0 /\ d.endColumn = Len(lineAt(document, d.line))

\* C8: in a batch of findings, each with a text and a line of the document, of
\* which one has a text that is not on its line, the batch does not fail, the
\* findings whose text is missing are not in the output, and every finding whose
\* text is on its line is: the output holds the matching findings, in their
\* order.
C8_UnmatchedFindingDropped ==
    (/\ fnOut.done
     /\ \A i \in 1..Len(Items) : Matched(Items[i]) \/ Unmatched(Items[i])
     /\ \E i \in 1..Len(Items) : Unmatched(Items[i])) =>
        LET matching == SelectSeq(Items, Matched)
        IN  /\ ~fnOut.result.threw
            /\ Len(fnOut.result.diagnostics) = Len(matching)
            /\ \A k \in 1..Len(matching) :
                  /\ fnOut.result.diagnostics[k].line = Get(matching[k], K.lineNumber).n
                  /\ fnOut.result.diagnostics[k].message = Get(matching[k], K.message)
                  /\ fnOut.result.diagnostics[k].startColumn >= 0

\* the severity the mapping is said to give
SaidSeverity(severity) ==
    IF severity.t # "string" THEN "Information"
    ELSE LET lower == toLowerCase(severity.s)
         IN  IF lower = <<"e", "r", "r", "o", "r">> THEN "Error"
             ELSE IF lower = <<"w", "a", "r", "n", "i", "n", "g">> THEN "Warning"
             ELSE IF lower = <<"h", "i", "n", "t">> THEN "Hint"
             ELSE "Information"

\* C9: the severity mapping never fails: a batch whose findings all match their
\* lines and have a message that is not empty is mapped, each diagnostic with
\* the severity of its finding read without regard to case, and Information for
\* an unrecognized or a missing severity.
C9_SeverityNeverFails ==
    (/\ fnOut.done
     /\ \A i \in 1..Len(Items) : Matched(Items[i]) /\ Truthy(Get(Items[i], K.message))) =>
        /\ ~fnOut.result.threw
        /\ Len(fnOut.result.diagnostics) = Len(Items)
        /\ \A i \in 1..Len(Items) :
              fnOut.result.diagnostics[i].severity = SaidSeverity(Get(Items[i], K.severity))

\* C10: decoding the JSON text of a batch of findings gives the batch back, and
\* decoding the text wrapped in code-fence markup gives the same.
C10_ParseRoundTrips ==
    fnOut.done =>
        /\ ~fnOut.bare.threw
        /\ fnOut.bare.value = fnIn
        /\ fnOut.fenced = fnOut.bare

\* the value the invocation decoded from the last turn of a transcript
FinalAnswer(msgs) == parseLintingResponse(extractFinalResponse(msgs).text)
\* the loop of the invocation returns in this step and its answer is decoded
ReturnsAnswer ==
    /\ pc # "idle"
    /\ pc' = "idle"
    /\ outcome' \in {"applied", "error:map"}
\* the line a finding names is a line of doc
NamesLineOf(doc, item) ==
    LET n == Get(item, K.lineNumber)
    IN  IsSmallInteger(n) /\ n.n \in 0..(Len(doc.lines) - 1)

\* answer is a batch with a finding that names no line of doc
NamesMissingLine(doc, answer) ==
    /\ answer.t = "array"
    /\ \E i \in 1..Len(answer.a) : ~NamesLineOf(doc, answer.a[i])

\* C12: a batch with a finding whose lineNumber is not the index of a line of the
\* live document fails as a whole: the invocation ends with the failure notice
\* and nothing of the batch is written to the document's diagnostics.
C12_OutOfRangeLineFailsBatch ==
    [][(ReturnsAnswer /\ NamesMissingLine(document, FinalAnswer(messages').value))
          => /\ outcome' = "error:map"
             /\ errorMessages' = errorMessages + 1
             /\ diagnosticCollection' = diagnosticCollection
             /\ setCalls' = setCalls]_vars

\* a batch of a finding that maps and one on a line past the end has failed
C12_Witness ==
    /\ outcome = "error:map"
    /\ errorMessages = 1
    /\ setCalls = 0
    /\ FinalAnswer(messages).value.t = "array"
    /\ LET items == FinalAnswer(messages).value.a
       IN  /\ Len(items) = 2
           /\ items[1] = FindingNamed.Foo
           /\ Get(items[2], K.lineNumber).n >= Len(document.lines)

\* this step is a pass that sets the document's diagnostics to those of answer
PassSets(answer) ==
    /\ outcome' = "applied" =>
           /\ diagnosticCollection' = applyDiagnostics(document, answer).diagnostics
           /\ errorMessages' = 0
           /\ setCalls' = 1
    /\ answer = JArr(<<>>) =>
           /\ outcome' = "applied"
           /\ diagnosticCollection' = <<>>
           /\ errorMessages' = 0

\* C14: a pass that ends without a fatal abort sets the document's diagnostics to
\* exactly those mapped in the pass, with no notice; the answer [] is such a pass
\* and leaves the document with no diagnostics.
C14_PassReplacesDiagnostics ==
    [][ReturnsAnswer => PassSets(FinalAnswer(messages').value)]_vars

\* a pass with a round of tool calls ended on the answer [] and the document has
\* no diagnostics
C14_Witness ==
    /\ outcome = "applied"
    /\ modelCalls = 2
    /\ FinalAnswer(messages).value = JArr(<<>>)
    /\ diagnosticCollection = <<>>
    /\ errorMessages = 0

\* the 0-based column of the first occurrence of text on line
FirstOccurrence(line, text) ==
    CHOOSE c \in 0..Len(line) :
        /\ IsAt(line, text, c + 1)
        /\ \A b \in 0..(c - 1) : ~IsAt(line, text, b + 1)

\* C16: the diagnostics of a batch are those of its matching findings, in order,
\* each starting at the first occurrence of its text on its line of the live
\* document and ending after the length of the text, so that the columns hold
\* the text.
C16_RangeIsFirstOccurrence ==
    (fnOut.done /\ ~fnOut.result.threw /\ TextsAreStrings) =>
        LET matching == SelectSeq(Items, Matched)
        IN  /\ Len(fnOut.result.diagnostics) = Len(matching)
            /\ \A k \in 1..Len(matching) :
                  LET d == fnOut.result.diagnostics[k]
                      text == Get(matching[k], K.problematicText).s
                  IN  /\ d.line = Get(matching[k], K.lineNumber).n
                      /\ d.startColumn = FirstOccurrence(LineOf(matching[k]), text)
                      /\ d.endColumn = d.startColumn + Len(text)
                      /\ SubSeq(LineOf(matching[k]), d.startColumn + 1, d.endColumn) = text

\* bar(baz) on line 1 was given columns 2 to 10, and a text that is on the line
\* twice the columns of its first occurrence
C16_Witness ==
    /\ fnOut.done
    /\ ~fnOut.result.threw
    /\ Items = <<FindingNamed.Bar, FindingNamed.Twice>>
    /\ fnOut.result.diagnostics[1].startColumn = 2
    /\ fnOut.result.diagnostics[1].endColumn = 10
    /\ fnOut.result.diagnostics[2].startColumn = 2
    /\ fnOut.result.diagnostics[2].endColumn = 4

\* C17: no diagnostic of the mapper has an empty range: endColumn > startColumn.
C17_NoZeroWidthRange ==
    (fnOut.done /\ ~fnOut.result.threw /\ TextsAreStrings) =>
        \A k \in 1..Len(fnOut.result.diagnostics) :
            fnOut.result.diagnostics[k].endColumn > fnOut.result.diagnostics[k].startColumn

\* a read_file request whose arguments are not JSON
NotJson(call) == call.name = ReadFileName /\ ~JSONparse(call.arguments).ok
HasUndecodable(turn) ==
    HasRequests(turn) /\ \E i \in 1..Len(turn.tool_calls.a) : NotJson(turn.tool_calls.a[i])

\* C13: the file resolver never raises: an invocation is never aborted by the
\* resolution of tool calls whose arguments all decode; whatever path they
\* carry, the resolver answers with the content or with the not-found sentinel.
C13_ResolverNeverRaises ==
    outcome = "error:tool" => HasUndecodable(messages[Len(messages)])

\* C15: an invocation's outcome does not depend on the module-level client
\* handle changing while it is in flight: an invocation that found a client when
\* it started never fails for want of one.
C15_HandleChangeKeepsOutcome ==
    outcome = "error:client" => modelCalls = 0

\* s is a prefix of t
IsPrefix(s, t) == Len(s) <= Len(t) /\ SubSeq(t, 1, Len(s)) = s
\* the requests of the assistant turn at p all have their tool turn
Answered(p) ==
    LET calls == messages[p].tool_calls.a
    IN  /\ p + Len(calls) <= Len(messages)
        /\ \A i \in 1..Len(calls) :
              /\ messages[p + i].role = "tool"
              /\ messages[p + i].tool_call_id = calls[i].id

\* C18: the transcript of an invocation starts as [system, user] and only grows,
\* and while a model call is in flight every request of every assistant turn
\* has its tool turn (the call was issued after the tool turns were appended).
C18_TranscriptAppendOnlyCallsAfterTools ==
    /\ [](Len(messages) > 0 =>
            /\ Len(messages) >= 2
            /\ messages[1] = SystemTurn(getSystemPrompt)
            /\ messages[2].role = "user"
            /\ \A p \in 3..Len(messages) : messages[p].role \in {"assistant", "tool"})
    /\ [](pc = "awaitModel" =>
            /\ \A p \in RequestTurns : Answered(p)
            /\ modelCalls = Cardinality(AssistantTurns(Len(messages))) + 1)
    /\ [][/\ (pc = "idle" /\ pc' # "idle") => Len(messages') = 2
          /\ pc # "idle" => IsPrefix(messages, messages')]_vars

\* the third model call of an invocation is in flight, after two rounds of tool
\* calls
C18_Witness ==
    /\ pc = "awaitModel"
    /\ modelCalls = 3
    /\ Cardinality(RequestTurns) = 2
    /\ messages[Len(messages)].role = "tool"

\* every call the invocation has had answered was answered with requests, and
\* no call or resolution failed
OnlyRequestsSoFar ==
    /\ outcome \notin {"none", "error:client", "error:model", "error:tool"}
    /\ modelFailures = 0
    /\ \A p \in AssistantTurns(Len(messages)) : HasRequests(messages[p])
\* MaxModelCalls calls were answered and the next one is in flight
CallsBeyond == pc = "awaitModel" /\ modelCalls > MaxModelCalls

\* C19: the loop has no ceiling on its iterations.  No outcome stands for a
\* loop that went on too long.  A running invocation ends only in the step that
\* appends an assistant turn without requests, in a model call that fails (or
\* cannot be issued, the client handle being cleared) or in a tool resolution
\* that fails.  While every answer holds requests and nothing fails the
\* invocation runs, with one call more than turns with requests once they are
\* resolved, whatever their number: after MaxModelCalls such turns the next call
\* is in flight.  And when the awaited calls settle, the invocation ends unless
\* the model has asked for tools on each of the MaxModelCalls calls.
C19_NoIterationCeiling ==
    /\ [](outcome \in {"none", "running", "applied"} \cup FatalOutcomes)
    /\ [][(outcome = "running" /\ outcome' # "running") =>
             \/ /\ outcome' = "error:model"
                /\ pc = "awaitModel"
                /\ modelFailures' = modelFailures + 1
                /\ messages' = messages
             \/ /\ outcome' = "error:client"
                /\ ~openai
                /\ messages'[Len(messages')].role = "tool"
             \/ /\ outcome' = "error:tool"
                /\ pc = "awaitModel"
                /\ messages' = Append(messages, messages'[Len(messages')])
                /\ HasRequests(messages'[Len(messages')])
             \/ /\ outcome' \in {"applied", "error:final", "error:parse", "error:map"}
                /\ pc = "awaitModel"
                /\ messages' = Append(messages, messages'[Len(messages')])
                /\ messages'[Len(messages')].role = "assistant"
                /\ ~HasRequests(messages'[Len(messages')])]_vars
    /\ [](OnlyRequestsSoFar =>
             /\ outcome = "running"
             /\ pc = "awaitModel" => modelCalls = Cardinality(RequestTurns) + 1
             /\ pc = "awaitTools" => modelCalls = Cardinality(RequestTurns))
    /\ [](CallsBeyond =>
             /\ outcome = "running"
             /\ modelCalls = MaxModelCalls + 1
             /\ Cardinality(RequestTurns) = MaxModelCalls)
    /\ (outcome = "running" ~> (outcome # "running" \/ CallsBeyond))

\* every one of the MaxModelCalls calls was answered with requests, they were
\* resolved, and the loop has issued the call after them
C19_Witness ==
    /\ CallsBeyond
    /\ OnlyRequestsSoFar
    /\ Cardinality(RequestTurns) = MaxModelCalls
    /\ messages[Len(messages)].role = "tool"

\* C20: an assistant turn with a read_file request whose arguments are not JSON
\* ends the invocation: it stays the last turn of the transcript (no tool turn
\* of it is appended), no model call follows, one notice is shown and the
\* document's diagnostics are as they were.
C20_UndecodableArgumentsAbort ==
    /\ [](\A p \in 1..Len(messages) :
             HasUndecodable(messages[p]) =>
                 /\ p = Len(messages)
                 /\ pc = "idle"
                 /\ outcome = "error:tool"
                 /\ errorMessages = 1
                 /\ setCalls = 0
                 /\ modelCalls = Cardinality(AssistantTurns(Len(messages))))
    /\ [][(pc # "idle" /\ HasUndecodable(messages'[Len(messages')])) =>
             diagnosticCollection' = diagnosticCollection]_vars

\* the turn held a request that was read and one that could not be decoded
C20_Witness ==
    /\ outcome = "error:tool"
    /\ LET calls == messages[Len(messages)].tool_calls.a
       IN  /\ Len(calls) = 2
           /\ ~NotJson(calls[1])
           /\ NotJson(calls[2])
    /\ fileReads = 1
    /\ toolResolutions = 2

\* both invocations have ended
BothEnded == pc = "idle" /\ other # NoInvocation /\ other.inv.pc = "idle"
\* the newer of the two invocations
Newer == IF other.newer THEN other.inv ELSE Running

\* C11: when two invocations of a document were in flight and both have ended,
\* the document's diagnostics are those of the newer one; results of the older
\* one that arrive later are not applied.
C11_NewestInvocationWins ==
    (BothEnded /\ Newer.outcome = "applied") =>
        diagnosticCollection =
            applyDiagnostics(document, FinalAnswer(Newer.messages).value).diagnostics

====
